---- MODULE Spec2Model ----
(***************************************************************************)
(* Scheduling and coordination core of the changefeed maintainer:          *)
(*   - DispatcherMap (downstreamadapter/dispatchermanager/helper.go)       *)
(*   - balance scheduler (maintainer/scheduler balance scheduler)          *)
(*   - Registry, operator controller, bootstrapper, basic scheduler and    *)
(*     heartbeat aggregator of the maintainer                              *)
(***************************************************************************)
EXTENDS Integers, Sequences, FiniteSets, TLC

None == "none"
\* no value returned yet
NoSeq == -1

Min(S) == CHOOSE x \in S : \A y \in S : x <= y
Max(S) == CHOOSE x \in S : \A y \in S : x >= y

\* Set whose d.seq.Add(1) is lost
SeqAddNone(x) == x

\* DispatcherMap.Set, line 93: d.seq.Add(1)
SeqAdd(x) == x + 1

(***************************************************************************)
(* Part 1. DispatcherMap: a sync.Map plus an atomic sequence number, used  *)
(* by concurrent goroutines.                                               *)
(***************************************************************************)

\* dispatcher ids handed to Set; each dispatcher id is created once, by its
\* own goroutine
NumIds == 2
DMIds == 1..NumIds
\* goroutines calling ForEach
NumIters == 1
Iters == 1..NumIters

VARIABLES
    m,        \* DispatcherMap.m: the set of keys stored in the sync.Map
    seq,      \* DispatcherMap.seq
    setPc,    \* id -> position of the goroutine calling Set(id)
    setRet,   \* id -> value returned by Set(id) (NoSeq until it returns)
    deleted,  \* dispatcher ids removed by Delete so far
    fe,       \* per ForEach goroutine: position, loaded seq, keys visited, keys Range still owes
    feDone    \* per ForEach goroutine, the result of its last call that has returned

dmVars == <<m, seq, setPc, setRet, deleted, fe, feDone>>

IdleIter == [pc |-> "idle", seq |-> 0, visited |-> {}, must |-> {}]

\* newDispatcherMap
InitDM ==
    /\ m = {}
    /\ seq = 0
    /\ setPc = [d \in DMIds |-> "idle"]
    /\ setRet = [d \in DMIds |-> NoSeq]
    /\ deleted = {}
    /\ fe = [t \in Iters |-> IdleIter]
    /\ feDone = [t \in Iters |-> [seq |-> NoSeq, visited |-> {}, gone |-> {}]]

\* Set, line 92: d.m.Store(id, dispatcher)
SetStore(id) ==
    /\ setPc[id] = "idle"
    /\ m' = m \cup {id}
    /\ setPc' = [setPc EXCEPT ![id] = "set_add"]
    /\ UNCHANGED <<seq, setRet, deleted, fe, feDone>>

\* Set, line 93: d.seq.Add(1)
SetAdd(id) ==
    /\ setPc[id] = "set_add"
    /\ seq' = SeqAdd(seq)
    /\ setPc' = [setPc EXCEPT ![id] = "set_load"]
    /\ UNCHANGED <<m, setRet, deleted, fe, feDone>>

\* Set, line 94: return d.seq.Load()
SetLoad(id) ==
    /\ setPc[id] = "set_load"
    /\ setRet' = [setRet EXCEPT ![id] = seq]
    /\ setPc' = [setPc EXCEPT ![id] = "done"]
    /\ UNCHANGED <<m, seq, deleted, fe, feDone>>

\* Delete, line 88: d.m.Delete(id), one atomic sync.Map operation. A Range in
\* progress no longer owes a visit to the deleted key.
Delete(id) ==
    /\ id \in m
    /\ m' = m \ {id}
    /\ deleted' = deleted \cup {id}
    /\ fe' = [t \in Iters |-> [fe[t] EXCEPT !.must = @ \ {id}]]
    /\ UNCHANGED <<seq, setPc, setRet, feDone>>

\* ForEach, line 98: seq := d.seq.Load(), then the Range starts; it owes a
\* visit to every key now in the map
ForEachLoad(t) ==
    /\ fe[t].pc = "idle"
    /\ fe' = [fe EXCEPT ![t] = [pc |-> "fe_range", seq |-> seq, visited |-> {}, must |-> m]]
    /\ UNCHANGED <<m, seq, setPc, setRet, deleted, feDone>>

\* ForEach, lines 99-102: sync.Map.Range calls fn on a key that is in the map
\* at some point of the Range call; no key is visited twice
ForEachVisit(t, id) ==
    /\ fe[t].pc = "fe_range"
    /\ id \in m
    /\ id \notin fe[t].visited
    /\ fe' = [fe EXCEPT ![t].visited = @ \cup {id}, ![t].must = @ \ {id}]
    /\ UNCHANGED <<m, seq, setPc, setRet, deleted, feDone>>

\* ForEach returning the sequence number as it is after the Range
ForEachReturnLateSeq(t) ==
    /\ fe[t].pc = "fe_range"
    /\ fe[t].must = {}
    /\ feDone' = [feDone EXCEPT ![t] = [seq |-> seq, visited |-> fe[t].visited, gone |-> deleted]]
    /\ fe' = [fe EXCEPT ![t] = IdleIter]
    /\ UNCHANGED <<m, seq, setPc, setRet, deleted>>

\* ForEach, line 103: return seq, once Range has visited every key that was
\* in the map during the whole call
ForEachReturn(t) ==
    /\ fe[t].pc = "fe_range"
    /\ fe[t].must = {}
    /\ feDone' = [feDone EXCEPT ![t] = [seq |-> fe[t].seq, visited |-> fe[t].visited, gone |-> deleted]]
    /\ fe' = [fe EXCEPT ![t] = IdleIter]
    /\ UNCHANGED <<m, seq, setPc, setRet, deleted>>

NextDM ==
    \/ \E id \in DMIds : SetStore(id)
    \/ \E id \in DMIds : SetAdd(id)
    \/ \E id \in DMIds : SetLoad(id)
    \/ \E id \in DMIds : Delete(id)
    \/ \E t \in Iters : ForEachLoad(t)
    \/ \E t \in Iters, id \in DMIds : ForEachVisit(t, id)
    \/ \E t \in Iters : ForEachReturn(t)


\* Set calls whose d.seq.Add(1) has been executed
SetsAdded == Cardinality({d \in DMIds : setPc[d] \in {"set_load", "done"}})

\* C3: a ForEach pass that does not visit a dispatcher stored by a Set (and
\* not deleted since) returns a sequence number strictly smaller than the one
\* that Set returns; the sequence number never decreases and grows by exactly
\* one per Set.
C3_SeqOrdersSetAndForEach ==
    /\ [](\A t \in Iters : \A d \in DMIds :
            (/\ feDone[t].seq # NoSeq
             /\ setRet[d] # NoSeq
             /\ d \notin feDone[t].visited
             /\ d \notin feDone[t].gone) => feDone[t].seq < setRet[d])
    /\ [](seq = SetsAdded)
    /\ [][seq' >= seq]_seq

\* a ForEach that started after one Set has returned without visiting a
\* dispatcher that another Set stored
C3_Witness ==
    \E t \in Iters : \E d \in DMIds :
        /\ feDone[t].seq > 0
        /\ setRet[d] # NoSeq
        /\ d \notin feDone[t].visited
        /\ d \notin feDone[t].gone


(***************************************************************************)
(* Part 2. The maintainer: Registry, Node View, operator controller and    *)
(* the balance scheduler.                                                  *)
(***************************************************************************)

NumNodes == 3
Nodes == 1..NumNodes
NumSpans == 3
Spans == 1..NumSpans
\* group ids: a span's groupID defaults to its table, so there are as many
\* groups as spans at most
Groups == Spans
\* balanceScheduler.batchSize
BatchSize == 1
\* balanceScheduler.checkBalanceInterval, in clock ticks
CheckBalanceInterval == 1

\* moveCount saturates here ("moved more than once")
MoveCountCap == 2

\* reg[s].node of a span that has no owner
NoNode == 0

VARIABLES
    alive,          \* Node View: nodes the maintainer believes alive
    group,          \* span -> groupID
    reg,            \* Registry: span -> [state, node, ckpt]
    ops,            \* operator controller: span -> in-flight operator or NoOp
    addResult,      \* outcome of the last AddOperator call
    forceBalance,   \* balanceScheduler.forceBalance
    since,          \* time.Since(balanceScheduler.lastRebalanceTime), capped
    execResult,     \* what the last Execute did: "waited", "unstable" or "ran"
    lastMoved,      \* moves emitted by the group and the global phase of the last Execute that ran
    moveCount       \* span -> number of MoveDispatcher operators the balance scheduler emitted for it

regVars == <<alive, group, reg, ops, addResult>>
balVars == <<forceBalance, since, execResult, lastMoved, moveCount>>

NoOp == [type |-> "none", origin |-> NoNode, dest |-> NoNode, phase |-> "none"]

\* operator.NewMoveDispatcherOperator(spanController, replication, origin, dest)
NewMoveDispatcherOperator(origin, dest) ==
    [type |-> "move", origin |-> origin, dest |-> dest, phase |-> "issued"]

\* operator.NewAddDispatcherOperator(spanController, replication, dest)
NewAddDispatcherOperator(dest) ==
    [type |-> "add", origin |-> NoNode, dest |-> dest, phase |-> "issued"]

\* operator.NewRemoveDispatcherOperator(spanController, replication)
NewRemoveDispatcherOperator(origin) ==
    [type |-> "remove", origin |-> origin, dest |-> NoNode, phase |-> "issued"]

\* operatorController.OperatorSize()
OperatorSize(o) == Cardinality({s \in Spans : o[s] # NoOp})

\* spanController.GetAbsentSize()
GetAbsentSize == Cardinality({s \in Spans : reg[s].state = "Absent"})

\* operatorController.AddOperator: at most one operator per span; false when
\* the span already has one
AddOperator(o, s, op) ==
    IF o[s] # NoOp
    THEN [ok |-> FALSE, ops |-> o]
    ELSE [ok |-> TRUE, ops |-> [o EXCEPT ![s] = op]]

\* spans of the Registry owned by node n
SpansOn(n) == {s \in Spans : reg[s].state # "None" /\ reg[s].node = n}

\* spanController.GetTaskSizePerNode()
GetTaskSizePerNode == [n \in alive |-> Cardinality(SpansOn(n))]

\* spanController.GetTaskSizePerNodeByGroup(group)
GetTaskSizePerNodeByGroup(g) == [n \in alive |-> Cardinality({s \in SpansOn(n) : group[s] = g})]

\* spanController.GetReplicatingByGroup(group)
GetReplicatingByGroup(g) == {s \in Spans : reg[s].state = "Working" /\ group[s] = g}

\* spanController.GetGroups()
GetGroups == {group[s] : s \in {x \in Spans : reg[x].state # "None"}}

\* pkgScheduler.CheckBalanceStatus: the number of spans to move; a placement
\* is imbalanced when max - min >= 2
CheckBalanceStatus(sizes, nodes) ==
    IF nodes = {} THEN 0
    ELSE LET mx == Max({sizes[n] : n \in nodes})
             mn == Min({sizes[n] : n \in nodes})
         IN IF mx - mn >= 2 THEN (mx - mn) \div 2 ELSE 0

\* all orders in which a Go map or a shuffled slice over S can be walked
Orders(S) == {f \in [1..Cardinality(S) -> S] : \A i, j \in 1..Cardinality(S) : i # j => f[i] # f[j]}

\* doMove that builds an add operator for the destination: the dispatcher is
\* created there and never removed from the origin
doMoveAsAdd(o, s, id) == AddOperator(o, s, NewAddDispatcherOperator(id))

\* doMove that installs its operator without asking AddOperator
doMoveForce(o, s, id) ==
    [ok |-> TRUE, ops |-> [o EXCEPT ![s] = NewMoveDispatcherOperator(reg[s].node, id)]]

\* doMove that takes the destination for the node the span is on
doMoveFromDest(o, s, id) == AddOperator(o, s, NewMoveDispatcherOperator(id, id))

\* balanceScheduler.doMove: build the move operator and hand it to AddOperator
doMove(o, s, id) == AddOperator(o, s, NewMoveDispatcherOperator(reg[s].node, id))

\* pkgScheduler.Balance(batchSize, random, nodes, replicating, move): while the
\* group is imbalanced and fewer than batchSize spans were moved, move a
\* randomly selected span of an over-loaded node to an under-loaded node.
\* c: span count per node, cand: spans not selected yet, k: moved so far.
\* The result is the set of possible outcomes [ops, moved].
RECURSIVE BalanceRuns(_, _, _, _, _)
BalanceRuns(batch, c, cand, k, o) ==
    LET nodes == DOMAIN c
        mx == Max({c[n] : n \in nodes})
        mn == Min({c[n] : n \in nodes})
        picks == {<<v, t, s>> \in nodes \X nodes \X cand :
                     c[v] = mx /\ c[t] = mn /\ reg[s].node = v}
    IN IF k >= batch \/ mx - mn < 2 \/ picks = {}
       THEN {[ops |-> o, moved |-> k]}
       ELSE UNION {LET r == doMove(o, p[3], p[2])
                   IN IF r.ok
                      THEN BalanceRuns(batch, [c EXCEPT ![p[1]] = @ - 1, ![p[2]] = @ + 1],
                                       cand \ {p[3]}, k + 1, r.ops)
                      ELSE BalanceRuns(batch, c, cand \ {p[3]}, k, o)
                   : p \in picks}

\* schedulerGroup handing every group twice the batch
RECURSIVE GroupRunsTwiceBatch(_, _, _, _)
GroupRunsTwiceBatch(gs, i, k, o) ==
    IF i > Len(gs)
    THEN {[ops |-> o, moved |-> k]}
    ELSE IF CheckBalanceStatus(GetTaskSizePerNodeByGroup(gs[i]), alive) <= 0
         THEN GroupRunsTwiceBatch(gs, i + 1, k, o)
         ELSE UNION {IF k + b.moved >= BatchSize
                     THEN {[ops |-> b.ops, moved |-> k + b.moved]}
                     ELSE GroupRunsTwiceBatch(gs, i + 1, k + b.moved, b.ops)
                     : b \in BalanceRuns(2 * BatchSize, GetTaskSizePerNodeByGroup(gs[i]),
                                         GetReplicatingByGroup(gs[i]), 0, o)}

\* balanceScheduler.schedulerGroup, lines 105-121, walking the groups in the
\* order gs
RECURSIVE GroupRuns(_, _, _, _)
GroupRuns(gs, i, k, o) ==
    IF i > Len(gs)
    THEN {[ops |-> o, moved |-> k]}
    ELSE IF CheckBalanceStatus(GetTaskSizePerNodeByGroup(gs[i]), alive) <= 0
         THEN GroupRuns(gs, i + 1, k, o)
         ELSE UNION {IF k + b.moved >= BatchSize
                     THEN {[ops |-> b.ops, moved |-> k + b.moved]}
                     ELSE GroupRuns(gs, i + 1, k + b.moved, b.ops)
                     : b \in BalanceRuns(BatchSize, GetTaskSizePerNodeByGroup(gs[i]),
                                         GetReplicatingByGroup(gs[i]), 0, o)}

\* a group phase that never moves a span
schedulerGroupNone(o) == {[ops |-> o, moved |-> 0]}

schedulerGroup(o) == UNION {GroupRuns(gs, 1, 0, o) : gs \in Orders(GetGroups)}

\* spanController.GetImbalanceGroupNodeTask(nodes)[g][n]: the spans of group g
\* that node n holds; the map entry is one of them, or nil when there is none
NodeTasks(g, n) == {s \in SpansOn(n) : group[s] = g}

\* schedulerGlobal, lines 171-182: pair the victims vs with the available
\* nodes av, in these orders
RECURSIVE PairRuns(_, _, _, _, _, _, _, _)
PairRuns(g, vs, av, next, j, size, k, o) ==
    IF j > Len(av) \/ next > Len(vs)
    THEN {[size |-> size, moved |-> k, ops |-> o]}
    ELSE UNION {LET r == doMove(o, task, av[j])
                IN IF r.ok
                   THEN PairRuns(g, vs, av, next + 1, j + 1,
                                 [size EXCEPT ![vs[next]] = @ - 1, ![av[j]] = @ + 1],
                                 k + 1, r.ops)
                   ELSE PairRuns(g, vs, av, next, j + 1, size, k, o)
                : task \in NodeTasks(g, vs[next])}

\* schedulerGlobal, lines 161-183, walking the groups in the order gs
RECURSIVE GlobalRuns(_, _, _, _, _, _)
GlobalRuns(gs, i, lowerLimitPerNode, size, k, o) ==
    IF i > Len(gs)
    THEN {[ops |-> o, moved |-> k]}
    ELSE LET g == gs[i]
             victims == {n \in alive : NodeTasks(g, n) # {} /\ size[n] > lowerLimitPerNode}
             availableNodes == {n \in alive : NodeTasks(g, n) = {} /\ size[n] < lowerLimitPerNode}
         IN UNION {UNION {GlobalRuns(gs, i + 1, lowerLimitPerNode, r.size, r.moved, r.ops)
                          : r \in PairRuns(g, vs, av, 1, 1, size, k, o)}
                   : <<vs, av>> \in Orders(victims) \X Orders(availableNodes)}

\* schedulerGlobal with the upper limit per node in place of the lower one
schedulerGlobalCeil(o) ==
    LET totalTasks == Cardinality({gn \in GetGroups \X alive : NodeTasks(gn[1], gn[2]) # {}})
        sizePerNode == [n \in alive |-> Cardinality({g \in GetGroups : NodeTasks(g, n) # {}})]
        upperLimitPerNode == (totalTasks + Cardinality(alive) - 1) \div Cardinality(alive)
    IN IF CheckBalanceStatus(GetTaskSizePerNode, alive) <= 0
       THEN {[ops |-> o, moved |-> 0]}
       ELSE UNION {GlobalRuns(gs, 1, upperLimitPerNode, sizePerNode, 0, o)
                   : gs \in Orders(GetGroups)}

\* balanceScheduler.schedulerGlobal, lines 124-186
schedulerGlobal(o) ==
    LET totalTasks == Cardinality({gn \in GetGroups \X alive : NodeTasks(gn[1], gn[2]) # {}})
        sizePerNode == [n \in alive |-> Cardinality({g \in GetGroups : NodeTasks(g, n) # {}})]
        lowerLimitPerNode == totalTasks \div Cardinality(alive)
        limitCnt == Cardinality({n \in alive : sizePerNode[n] > 0 /\ sizePerNode[n] = lowerLimitPerNode})
    IN IF CheckBalanceStatus(GetTaskSizePerNode, alive) <= 0
       THEN {[ops |-> o, moved |-> 0]}
       ELSE IF limitCnt = Cardinality(alive)
            THEN {[ops |-> o, moved |-> 0]}
            ELSE UNION {GlobalRuns(gs, 1, lowerLimitPerNode, sizePerNode, 0, o)
                        : gs \in Orders(GetGroups)}

\* MoveDispatcher operators started by one Execute mark their span Scheduling
StartMoves(o) ==
    [s \in Spans |-> IF ops[s] = NoOp /\ o[s] # NoOp
                     THEN [reg[s] EXCEPT !.state = "Scheduling"]
                     ELSE reg[s]]

\* Execute that runs the global phase whatever the group phase moved
ExecutePhasesBoth(o) ==
    UNION {{[ops |-> h.ops, moved |-> g.moved + h.moved, groupMoved |-> g.moved, globalMoved |-> h.moved]
            : h \in schedulerGlobal(g.ops)}
           : g \in schedulerGroup(o)}

\* Execute, lines 88-93: the group phase, then the global phase when the
\* group phase moved nothing
ExecutePhases(o) ==
    UNION {IF g.moved = 0
           THEN {[ops |-> h.ops, moved |-> h.moved, groupMoved |-> 0, globalMoved |-> h.moved]
                 : h \in schedulerGlobal(g.ops)}
           ELSE {[ops |-> g.ops, moved |-> g.moved, groupMoved |-> g.moved, globalMoved |-> 0]}
           : g \in schedulerGroup(o)}

\* Execute, line 83, without the stable-state test
StableAlways(o) == TRUE

\* Execute, line 83: no operator in flight and no Absent span
Stable(o) == ~(OperatorSize(o) > 0 \/ GetAbsentSize > 0)

\* Execute, line 95, with = in place of >=
ForceBalanceExact(moved) == moved = BatchSize

\* Execute, line 95: s.forceBalance = moved >= s.batchSize
ForceBalance(moved) == moved >= BatchSize

\* balanceScheduler.Execute, lines 72-99
Execute ==
    IF ~forceBalance /\ since < CheckBalanceInterval
    THEN /\ execResult' = "waited"
         /\ UNCHANGED <<regVars, forceBalance, since, lastMoved, moveCount>>
    ELSE IF ~Stable(ops)
         THEN /\ execResult' = "unstable"
              /\ UNCHANGED <<regVars, forceBalance, since, lastMoved, moveCount>>
         ELSE \E r \in ExecutePhases(ops) :
                /\ ops' = r.ops
                /\ reg' = StartMoves(r.ops)
                /\ addResult' = IF r.moved > 0 THEN "accepted" ELSE addResult
                /\ forceBalance' = ForceBalance(r.moved)
                /\ since' = 0
                /\ execResult' = "ran"
                /\ lastMoved' = [group |-> r.groupMoved, global |-> r.globalMoved]
                /\ moveCount' = [s \in Spans |-> IF ops[s] = NoOp /\ r.ops[s] # NoOp
                                                 THEN Min({moveCount[s] + 1, MoveCountCap}) ELSE moveCount[s]]
                /\ UNCHANGED <<alive, group>>

\* time passes
ClockTick ==
    /\ since < CheckBalanceInterval
    /\ since' = since + 1
    /\ UNCHANGED <<regVars, forceBalance, execResult, lastMoved, moveCount>>

(***************************************************************************)
(* Part 3. Messages between the maintainer and the dispatcher managers,    *)
(* operator progress, node loss, bootstrap and the schedulers.             *)
(***************************************************************************)

\* largest timestamp a dispatcher reaches
MaxTs == 2
\* a dispatcher that is not hosted; an entry that is not reported
NoTs == -1
\* messages a queue holds at most
MaxQueue == 3
\* membership changes explored
MaxRemovals == 1
MaxJoins == 1
\* table drops explored
MaxDrops == 1
\* MoveTable calls explored
MaxMoves == 2
\* node losses, node joins and table drops explored in
\* one behaviour, taken together
MaxEvents == 2
\* tables the changefeed replicates at most: AddAbsent adds spans 1..MaxTables
MaxTables == 2
\* spans the basic scheduler places in one tick
SchedBatch == 2

VARIABLES
    bootstrapped,  \* nodes whose bootstrap response the maintainer has reconciled
    reqQ,          \* node -> requests in flight from the maintainer, in order
    msgQ,          \* node -> messages in flight from that node to the maintainer, in order
    dsp,           \* node -> span -> checkpoint of the dispatcher hosted there, or NoTs
    dmSeq,         \* node -> DispatcherMap.seq of its dispatcher manager
    hbPending,     \* node -> heartbeat collected by ForEach and not sent yet
    maintainerID,  \* node -> the maintainer the dispatcher manager of the node answers to
    nodeWM,        \* maintainer: node -> watermark and seq of the last heartbeat taken
    lastSeq,       \* maintainer: node -> largest seq seen in a message of that node
    published,     \* the changefeed checkpointTs the maintainer publishes
    pubAtCreate,   \* span -> published checkpointTs when the span was created
    lowStart,      \* span -> a Working span was ahead of the span's startTs when it was created
    reported,      \* span -> a heartbeat taken by the maintainer has carried the span
    removals, joins, drops, apiMoves  \* counters bounding the exploration

netVars == <<bootstrapped, reqQ, msgQ, dsp, dmSeq, hbPending, maintainerID>>
wmVars == <<nodeWM, lastSeq, published, pubAtCreate, lowStart, reported>>
cntVars == <<removals, joins, drops, apiMoves>>

\* ---- state of the GC safepoint keeper (Part 4) ----

\* largest value of the unsigned timestamps of the model; arithmetic on them
\* wraps at MaxUint + 1 as uint64 arithmetic wraps at 2^64
MaxUint == 3
Uint == 0..MaxUint
Wrap(x) == x % (MaxUint + 1)

\* the clock runs from 0 to MaxClock
MaxClock == 4
\* gcSafepointUpdateInterval and gcTTL, in clock units
GcSafepointUpdateInterval == 1
GcTTL == 2

\* a timestamp is a physical time followed by LogicalRange logical values
LogicalRange == 2

VARIABLES
    gcNow,    \* time.Now()
    gcm,      \* the gcManager: lastUpdatedTime, lastSucceededTime, lastSafePointTs, isTiCDCBlockGC
    gcOut,    \* the last call: its arguments, what the push returned and what the call returned
    gcSucceeded   \* a push of TryUpdateGCSafePoint has succeeded

gcVars == <<gcNow, gcm, gcOut, gcSucceeded>>

\* ---- state of the resume command (Part 5) ----

VARIABLES
    cliOpts,      \* the resumeChangefeedOptions
    cliEnv,       \* what the API server answers: changefeed detail, current TSO
    cliPc,        \* "start", "validated" (validateParams returned), "ran" (run returned), "done"
    cliRet,       \* the error returned
    cliRequest    \* OverwriteCheckpointTs of the resume request sent, NoRequest if none was sent

cliVars == <<cliOpts, cliEnv, cliPc, cliRet, cliRequest>>

\* the commit timestamp of the blocking event
BarrierTs == 2
\* dispatcher checkpoints of the barrier protocol go up to MaxBarTs
MaxBarTs == 3
\* dispatchers lost while a barrier is open
MaxBarLosses == 1

VARIABLES
    barScope,      \* scope of the blocking event: "singleTable" or "global"
    barrier,       \* the barrier: state, barrierTs, span set, spans owing an ack
    barMsg,        \* per span: the request last broadcast to its dispatcher
    bdCkpt,        \* per span: the checkpoint of its dispatcher, NoTs without one
    bdAcked,       \* per span: its dispatcher has acked PrepareBarrier
    barWM,         \* per span: the Registry's watermark
    changefeedCkpt,  \* the published changefeed changefeedCkpt
    ddl,           \* "none", or "written" once the sink has applied the DDL
    barLosses      \* dispatchers lost so far

barVars == <<barScope, barrier, barMsg, bdCkpt, bdAcked, barWM, changefeedCkpt, ddl, barLosses>>

\* the largest Size of a txn cache
MaxCacheSize == 2

VARIABLES
    txnCache,  \* the cache: BlockStrategy, upperSize, ch.Len() and isBlocked
    addOut,    \* the last add: its result, ch.Len() when issued and as first read,
               \* and the wait state when issued
    tcWait     \* "open"; "rejected" since an add was rejected; "emptied" once
               \* the consumer has drained the cache after that

txnVars == <<txnCache, addOut, tcWait>>

\* dispatchers of the changefeed on this node
NumDispatchers == 3
DispatcherIDs == 1..NumDispatchers
\* the zero DispatcherID
NoDispatcher == 0
NumSchemas == 2
Schemas == 1..NumSchemas
\* schedule requests sent to the dispatcher manager
MaxReqs == 3
\* dispatcher statuses in one heartbeat response
MaxStatuses == 2

VARIABLES
    edm,       \* the EventDispatcherManager: dispatcherMap and schemaIDToDispatchers
    schedQ,    \* the schedule requests of the changefeed's path waiting in the dynamic stream
    schedOut,  \* the batch last handed to Handle, and all requests handled so far
    hbOut      \* the heartbeat response last handled and its pushes <<status index, dispatcher>>

edmVars == <<edm, schedQ, schedOut, hbOut>>

\* dispatchers and spans known to the event store
NumStoreDispatchers == 2
StoreDispatchers == 1..NumStoreDispatchers
NumStoreSpans == 2
StoreSpans == 1..NumStoreSpans
\* the largest startTS and sendTS
MaxSendTS == 2
\* RegisterDispatcher calls and GC items
MaxRegisters == 2
MaxGCItems == 2

VARIABLES
    esTables,   \* eventStore.tables: span -> dispatcher (NoDispatcher: no entry)
    spans,    \* eventStore.spans: dispatcher -> tableState (NoTableState: no entry)
    gcItems,  \* the items handed to gcManager.addGCItem, in order
    regAt,    \* dispatcher -> number of GC items when it was last registered
    esCall,   \* the last call on the event store and what it returned
    registers \* RegisterDispatcher calls so far

esVars == <<esTables, spans, gcItems, regAt, esCall, registers>>

\* the largest byte of a key and the longest key
MaxByte == 1
MaxKeyLen == 2
\* parents handed to IsSubSpan at most
MaxParents == 2

VARIABLES
    spanCall   \* the last call of a span operation: its arguments and what it returned

spanVars == <<spanCall>>

\* signals the process is sent at most
MaxSignals == 3

VARIABLES
    sigCh,             \* the signal channel of InitSignalHandling
    sigPc,          \* where its goroutine is: "wait", "shutdown", "select", "cancel", "returned"
    signals,        \* signals sent to the process so far
    doneFired,      \* the done channel returned by shutdown has fired
    shutdownCalls,  \* calls of the shutdown callback
    cancelCalls     \* calls of cancel

sigVars == <<sigCh, sigPc, signals, doneFired, shutdownCalls, cancelCalls>>

\* column schemas (columns and indices) of table infos; columnSchema objects
\* allocated and references held at most
NumSchemaContents == 3
MaxObjects == 3
MaxRefs == 3

VARIABLES
    csm,         \* SharedColumnSchemaStorage.m: digest -> key present, list of [obj, count]
    objContent,  \* columnSchema object -> its columns and indices (0: not allocated)
    nextObj,     \* the next columnSchema object to allocate
    held,        \* columnSchema object -> references handed out and not yet released
    csOut        \* the last call: operation, columns and indices, object returned or released

csVars == <<csm, objContent, nextObj, held, csOut>>

\* items written to a shard of the event store, batches formed by the ticker,
\* the batch size that ends a batch, the capacity of batchCh and the Next
\* calls on an iterator
MaxItems == 3
MaxTickerBatches == 2
batchCommitSize == 2
BatchChCap == 2
MaxNexts == 3

VARIABLES
    inputCh,    \* the shard's channel of eventWithTableID
    curBatch,      \* handleEvents: the batch and newResolved of the running doBatching
    hePc,       \* handleEvents: "batching" or "send"
    batchCh,    \* the channel of DBBatchEvent
    cb,         \* batchCommitAndUpdateWatermark: where it is and its batchEvent
    db,         \* the keys committed to the shard's pebble DB
    notified,   \* the notifier calls, in order
    enqLog,     \* every item sent to inputCh, in order
    formed,     \* batches returned by doBatching so far
    tickerFormed, \* those of them returned at a tick
    commitLog,  \* the batches taken by the committer, in order
    iter,       \* the eventStoreIter handed out by GetIterator
    returned    \* the values returned by the iterator's Next, in order

shardVars == <<inputCh, curBatch, hePc, batchCh, cb, db, notified, enqLog, formed,
               tickerFormed, commitLog, iter, returned>>

\* the variables of the parts after the barrier controller
laterVars == <<txnVars, edmVars, esVars, spanVars, sigVars, csVars, shardVars>>

sideVars == <<gcVars, cliVars, barVars, laterVars>>


\* the state of Parts 1 to 3
mainVars == <<dmVars, regVars, balVars, netVars, wmVars, cntVars>>

vars == <<mainVars, sideVars>>

\* what the steps of the txn cache leave alone
nonTxnVars == <<mainVars, gcVars, cliVars, barVars, edmVars, esVars, spanVars, sigVars, csVars, shardVars>>

\* what the steps of the dispatcher manager's handlers leave alone
nonEdmVars == <<mainVars, gcVars, cliVars, barVars, txnVars, esVars, spanVars, sigVars, csVars, shardVars>>

\* what the steps of the event store leave alone
nonEsVars == <<mainVars, gcVars, cliVars, barVars, txnVars, edmVars, spanVars, sigVars, csVars, shardVars>>

\* what the span operations leave alone
nonSpanVars == <<mainVars, gcVars, cliVars, barVars, txnVars, edmVars, esVars, sigVars, csVars, shardVars>>

\* what the signal handling leaves alone
nonSigVars == <<mainVars, gcVars, cliVars, barVars, txnVars, edmVars, esVars, spanVars, csVars, shardVars>>

\* what the column schema storage leaves alone
nonCsVars == <<mainVars, gcVars, cliVars, barVars, txnVars, edmVars, esVars, spanVars, sigVars, shardVars>>

\* what the shard of the event store leaves alone
nonShardVars == <<mainVars, gcVars, cliVars, barVars, txnVars, edmVars, esVars, spanVars, sigVars, csVars>>

\* mockDispatcherManager.maintainerID: unset, or the maintainer whose bootstrap
\* request the node has handled
NoMaintainer == ""
ThisMaintainer == "maintainer"

NoEntries == [s \in Spans |-> NoTs]
NoMsg == [kind |-> "none", span |-> 0, ckpt |-> NoTs, seq |-> 0, ents |-> NoEntries]
NoWM == [ckpt |-> NoTs, seq |-> 0]
NoSpanRec == [state |-> "None", node |-> NoNode, ckpt |-> 0]

Request(action, s, startTs) == [action |-> action, span |-> s, startTs |-> startTs]

\* ScheduleDispatcherRequest / status messages are appended to a queue
Send(q, n, msg) == [q EXCEPT ![n] = Append(@, msg)]

\* the dispatchers a dispatcher manager hosts
Hosted(n) == {s \in Spans : dsp[n][s] # NoTs}

\* node losses, joins and drops so far
Events == removals + joins + drops

\* ---- the maintainer's event loop ----

\* a new table span enters the Registry as Absent, starting at the
\* changefeed's checkpointTs (NewReplicaSet(id, span, watermark.CheckpointTs))
AddAbsent(s) ==
    /\ s <= MaxTables
    /\ reg[s].state = "None"
    /\ ops[s] = NoOp
    /\ reg' = [reg EXCEPT ![s] = [state |-> "Absent", node |-> NoNode, ckpt |-> published]]
    /\ pubAtCreate' = [pubAtCreate EXCEPT ![s] = published]
    /\ lowStart' = [lowStart EXCEPT ![s] = \E x \in Spans : reg[x].state = "Working" /\ reg[x].ckpt > published]
    /\ reported' = [reported EXCEPT ![s] = FALSE]
    /\ UNCHANGED <<alive, group, ops, addResult, balVars, netVars, nodeWM, lastSeq, published, cntVars, dmVars, sideVars>>

\* a scheduler that does not wait for the bootstrap responses
\* schedulers that wait for the inventory of every node, lost ones included
SchedulerUnblockedByAll == bootstrapped = Nodes

SchedulerUnblockedAtOnce == alive # {}

\* the scheduler runs once every alive node has answered the bootstrap request
SchedulerUnblocked == alive # {} /\ alive \subseteq bootstrapped

\* basic scheduler: each span of the batch goes to the node with the fewest
\* spans (ties: smallest node id) and gets an AddDispatcher operator
RECURSIVE Place(_, _, _)
Place(batch, o, r) ==
    IF batch = {}
    THEN [ops |-> o, reg |-> r]
    ELSE LET s == Min(batch)
             size == [n \in alive |-> Cardinality({x \in Spans : r[x].state # "None" /\ r[x].node = n})]
             dest == Min({n \in alive : \A k \in alive : size[n] <= size[k]})
             a == AddOperator(o, s, NewAddDispatcherOperator(dest))
         IN IF a.ok
            THEN Place(batch \ {s}, a.ops,
                       [r EXCEPT ![s] = [state |-> "Scheduling", node |-> dest, ckpt |-> r[s].ckpt]])
            ELSE Place(batch \ {s}, o, r)

BasicSchedule ==
    /\ SchedulerUnblocked
    /\ \E batch \in SUBSET {s \in Spans : reg[s].state = "Absent"} :
         /\ batch # {}
         /\ Cardinality(batch) = Min({SchedBatch, GetAbsentSize})
         /\ LET p == Place(batch, ops, reg)
            IN /\ ops' = p.ops
               /\ reg' = p.reg
               /\ addResult' = "accepted"
    /\ UNCHANGED <<alive, group, balVars, netVars, wmVars, cntVars, dmVars, sideVars>>

\* the balance scheduler's tick
BalanceTick ==
    /\ SchedulerUnblocked
    /\ Execute
    /\ UNCHANGED <<netVars, wmVars, cntVars, dmVars, sideVars>>

Tick ==
    /\ ClockTick
    /\ UNCHANGED <<netVars, wmVars, cntVars, dmVars, sideVars>>

\* MoveTable API: move span s to node dest; no operator is emitted against a
\* node whose inventory has not been received
MoveTable(s, dest) ==
    /\ apiMoves < MaxMoves
    /\ apiMoves' = apiMoves + 1
    /\ reg[s].state \in {"Working", "Scheduling"}
    /\ dest \in alive \cap bootstrapped
    /\ dest # reg[s].node
    /\ LET a == doMove(ops, s, dest)
       IN /\ ops' = a.ops
          /\ addResult' = IF a.ok THEN "accepted" ELSE "rejected"
          /\ reg' = IF a.ok THEN [reg EXCEPT ![s].state = "Scheduling"] ELSE reg
    /\ UNCHANGED <<alive, group, balVars, netVars, wmVars, removals, joins, drops, dmVars, sideVars>>

\* a table is dropped: its span is removed. Marking a span Removing cancels
\* the operator it has; an Absent span is deleted at once
DropSpan(s) ==
    /\ drops < MaxDrops
    /\ Events < MaxEvents
    /\ drops' = drops + 1
    /\ reg[s].state \in {"Absent", "Scheduling", "Working"}
    /\ IF reg[s].state = "Absent"
       THEN /\ reg' = [reg EXCEPT ![s] = NoSpanRec]
            /\ ops' = [ops EXCEPT ![s] = NoOp]
       ELSE /\ reg' = [reg EXCEPT ![s].state = "Removing"]
            /\ ops' = [ops EXCEPT ![s] = NewRemoveDispatcherOperator(reg[s].node)]
    /\ UNCHANGED <<alive, group, addResult, balVars, netVars, wmVars, removals, joins, apiMoves, dmVars, sideVars>>

\* the operator controller sends the first request of an operator
OperatorSchedule(s) ==
    /\ ops[s].phase = "issued"
    /\ LET op == ops[s]
           target == IF op.type = "add" THEN op.dest ELSE op.origin
       IN /\ target \in alive
          /\ Len(reqQ[target]) < MaxQueue
          /\ reqQ' = Send(reqQ, target,
                          IF op.type = "add"
                          THEN Request("Create", s, reg[s].ckpt)
                          ELSE Request("Remove", s, 0))
          /\ ops' = [ops EXCEPT ![s].phase = IF op.type = "add" THEN "creating" ELSE "removing"]
    /\ UNCHANGED <<alive, group, reg, addResult, balVars, bootstrapped, msgQ, dsp, dmSeq, hbPending, maintainerID,
                   wmVars, cntVars, dmVars, sideVars>>

\* ---- the dispatcher manager of node n ----

\* watermark of a dispatcher manager: the minimum checkpoint of the
\* dispatchers ForEach visits (NoTs when it visits none)
Watermark(ents) ==
    IF \A s \in Spans : ents[s] = NoTs THEN NoTs
    ELSE Min({ents[s] : s \in {x \in Spans : ents[x] # NoTs}})

\* a dispatcher manager that reports the dispatcher it created as Stopped
CreateStatusStopped(s, ckpt, sq) ==
    [kind |-> "Stopped", span |-> s, ckpt |-> ckpt, seq |-> sq, ents |-> NoEntries]

\* onDispatchRequest: the status of a created dispatcher is
\* ComponentState_Working; it carries the checkpoint the dispatcher starts
\* from and the seq DispatcherMap.Set returned
CreateStatus(s, ckpt, sq) ==
    [kind |-> "Working", span |-> s, ckpt |-> ckpt, seq |-> sq, ents |-> NoEntries]

\* handleMessage: the dispatcher manager takes the next request of the
\* maintainer; a dispatch request of a maintainer other than the one whose
\* bootstrap request it has handled is ignored.
\*   Create: the dispatcher is stored with DispatcherMap.Set and reported
\*           Working with the seq Set returns
\*   Remove: the dispatcher is deleted and reported Stopped
\*   Bootstrap: the inventory of hosted dispatchers is returned
WorkerHandle(n) ==
    /\ n \in alive
    /\ reqQ[n] # <<>>
    /\ Len(msgQ[n]) < MaxQueue
    /\ LET req == Head(reqQ[n])
           s == req.span
       IN /\ reqQ' = [reqQ EXCEPT ![n] = Tail(@)]
          /\ CASE req.action = "Bootstrap" ->
                    /\ maintainerID' = [maintainerID EXCEPT ![n] = ThisMaintainer]
                    /\ msgQ' = Send(msgQ, n, [kind |-> "Bootstrap", span |-> 0, ckpt |-> NoTs,
                                              seq |-> dmSeq[n], ents |-> dsp[n]])
                    /\ UNCHANGED <<dsp, dmSeq>>
               [] req.action # "Bootstrap" /\ maintainerID[n] # ThisMaintainer ->
                    \* ignore invalid maintainer id
                    UNCHANGED <<msgQ, dsp, dmSeq, maintainerID>>
               [] req.action = "Create" /\ maintainerID[n] = ThisMaintainer ->
                    /\ IF dsp[n][s] # NoTs
                       THEN /\ msgQ' = Send(msgQ, n, CreateStatus(s, dsp[n][s], dmSeq[n]))
                            /\ UNCHANGED <<dsp, dmSeq>>
                       ELSE /\ dsp' = [dsp EXCEPT ![n][s] = req.startTs]
                            /\ dmSeq' = [dmSeq EXCEPT ![n] = SeqAdd(@)]
                            /\ msgQ' = Send(msgQ, n, CreateStatus(s, req.startTs, dmSeq'[n]))
                    /\ UNCHANGED maintainerID
               [] req.action = "Remove" /\ maintainerID[n] = ThisMaintainer ->
                    /\ dsp' = [dsp EXCEPT ![n][s] = NoTs]
                    /\ msgQ' = Send(msgQ, n, [kind |-> "Stopped", span |-> s, ckpt |-> dsp[n][s],
                                              seq |-> dmSeq[n], ents |-> NoEntries])
                    /\ UNCHANGED <<dmSeq, maintainerID>>
    /\ UNCHANGED <<regVars, balVars, bootstrapped, hbPending, wmVars, cntVars, dmVars, sideVars>>

\* a dispatcher makes progress
Advance(n, s) ==
    /\ dsp[n][s] # NoTs
    /\ dsp[n][s] < MaxTs
    /\ dsp' = [dsp EXCEPT ![n][s] = @ + 1]
    /\ UNCHANGED <<regVars, balVars, bootstrapped, reqQ, msgQ, dmSeq, hbPending, maintainerID, wmVars, cntVars, dmVars, sideVars>>

\* heartbeat collection: DispatcherMap.ForEach returns the seq loaded before
\* the Range and visits the hosted dispatchers
HBCollect(n) ==
    /\ n \in alive
    /\ hbPending[n] = NoMsg
    /\ hbPending' = [hbPending EXCEPT ![n] =
                        [kind |-> "Heartbeat", span |-> 0, ckpt |-> Watermark(dsp[n]),
                         seq |-> dmSeq[n], ents |-> dsp[n]]]
    /\ UNCHANGED <<regVars, balVars, bootstrapped, reqQ, msgQ, dsp, dmSeq, maintainerID, wmVars, cntVars, dmVars, sideVars>>

\* the collected heartbeat is handed to the transport
HBSend(n) ==
    /\ hbPending[n] # NoMsg
    /\ Len(msgQ[n]) < MaxQueue
    /\ msgQ' = Send(msgQ, n, hbPending[n])
    /\ hbPending' = [hbPending EXCEPT ![n] = NoMsg]
    /\ UNCHANGED <<regVars, balVars, bootstrapped, reqQ, dsp, dmSeq, maintainerID, wmVars, cntVars, dmVars, sideVars>>

\* ---- the maintainer takes a message of node n ----

\* a fold that takes the entries of any reporter
FoldAny(r, n, ents) ==
    [s \in Spans |-> IF r[s].state = "Working" /\ ents[s] > r[s].ckpt
                     THEN [r[s] EXCEPT !.ckpt = ents[s]]
                     ELSE r[s]]

\* per-span watermark update with max, for the entries whose reporter is the
\* Registry's owner of the span
Fold(r, n, ents) ==
    [s \in Spans |-> IF r[s].node = n /\ r[s].state = "Working" /\ ents[s] > r[s].ckpt
                     THEN [r[s] EXCEPT !.ckpt = ents[s]]
                     ELSE r[s]]

\* an adoption that records the span as Working without its owner
MarkWorkingNoOwner(rec, n, ts) ==
    [state |-> "Working", node |-> NoNode, ckpt |-> Max({rec.ckpt, ts})]

\* Registry.MarkWorking(span, onNode, ts)
MarkWorking(rec, n, ts) ==
    [state |-> "Working", node |-> n, ckpt |-> Max({rec.ckpt, ts})]

\* bootstrap reconciliation of the inventory ents reported by node n, span by
\* span: todo holds the reported spans not reconciled yet
RECURSIVE Reconcile(_, _, _, _, _)
Reconcile(n, ents, todo, o, r) ==
    IF todo = {}
    THEN [ops |-> o, reg |-> r]
    ELSE LET s == Min(todo)
             rm == AddOperator(o, s, NewRemoveDispatcherOperator(n))
         IN IF r[s].state = "None"
            THEN \* not in any live table: RemoveDispatcher
                 Reconcile(n, ents, todo \ {s}, rm.ops, r)
            ELSE IF r[s].state = "Absent" /\ o[s] = NoOp
                 THEN \* unknown to the Registry: adopt as Working
                      Reconcile(n, ents, todo \ {s}, o,
                                [r EXCEPT ![s] = MarkWorking(r[s], n, ents[s])])
                 ELSE IF r[s].node = n
                      THEN \* owner matches: adopt the reported watermark if higher
                           Reconcile(n, ents, todo \ {s}, o,
                                     [r EXCEPT ![s].ckpt = Max({r[s].ckpt, ents[s]})])
                      ELSE \* owner disagrees: RemoveDispatcher against the reporter
                           Reconcile(n, ents, todo \ {s}, rm.ops, r)

HandleMessage(n) ==
    /\ msgQ[n] # <<>>
    /\ LET msg == Head(msgQ[n])
           s == msg.span
           op == IF s \in Spans THEN ops[s] ELSE NoOp
           fresh == msg.seq >= lastSeq[n]
       IN /\ msgQ' = [msgQ EXCEPT ![n] = Tail(@)]
          /\ lastSeq' = [lastSeq EXCEPT ![n] = Max({@, msg.seq})]
          /\ CASE msg.kind = "Working" ->
                    LET finishes == /\ reg[s].node = n
                                    /\ op.type \in {"add", "move"}
                                    /\ op.dest = n
                                    /\ op.phase = "creating"
                    IN /\ reg' = IF finishes
                                 THEN [reg EXCEPT ![s] = [state |-> "Working", node |-> n,
                                                          ckpt |-> Max({reg[s].ckpt, msg.ckpt})]]
                                 ELSE reg
                       /\ ops' = IF finishes THEN [ops EXCEPT ![s] = NoOp] ELSE ops
                       /\ UNCHANGED <<reqQ, bootstrapped, nodeWM, reported>>
               [] msg.kind = "Stopped" ->
                    IF op.type = "remove" /\ op.origin = n /\ op.phase = "removing"
                    THEN /\ ops' = [ops EXCEPT ![s] = NoOp]
                         /\ reg' = IF reg[s].node = n \/ reg[s].state = "Removing"
                                   THEN [reg EXCEPT ![s] = NoSpanRec]
                                   ELSE reg
                         /\ UNCHANGED <<reqQ, bootstrapped, nodeWM, reported>>
                    ELSE IF op.type = "move" /\ op.origin = n /\ op.phase = "removing"
                         THEN /\ Len(reqQ[op.dest]) < MaxQueue
                              /\ reg' = [reg EXCEPT ![s].node = op.dest]
                              /\ ops' = [ops EXCEPT ![s].phase = "creating"]
                              /\ reqQ' = Send(reqQ, op.dest, Request("Create", s, reg[s].ckpt))
                              /\ UNCHANGED <<bootstrapped, nodeWM, reported>>
                         ELSE UNCHANGED <<reg, ops, reqQ, bootstrapped, nodeWM, reported>>
               [] msg.kind = "Bootstrap" ->
                    LET rc == Reconcile(n, msg.ents, {x \in Spans : msg.ents[x] # NoTs}, ops, reg)
                    IN /\ reg' = rc.reg
                       /\ ops' = rc.ops
                       /\ bootstrapped' = bootstrapped \cup {n}
                       /\ UNCHANGED <<reqQ, nodeWM, reported>>
               [] msg.kind = "Heartbeat" ->
                    /\ reg' = Fold(reg, n, msg.ents)
                    /\ nodeWM' = IF fresh
                                 THEN [nodeWM EXCEPT ![n] = [ckpt |-> msg.ckpt, seq |-> msg.seq]]
                                 ELSE nodeWM
                    /\ reported' = [x \in Spans |->
                                      reported[x] \/ (fresh /\ msg.ents[x] # NoTs /\ reg[x].node = n)]
                    /\ UNCHANGED <<ops, reqQ, bootstrapped>>
    /\ UNCHANGED <<alive, group, addResult, balVars, dsp, dmSeq, hbPending, maintainerID, published, pubAtCreate, lowStart,
                   cntVars, dmVars, sideVars>>

\* an aggregator that never waits for a span that is being added
PublishBlockedNever == FALSE

\* a span is being added: Absent, or Scheduling with its operator in flight
PublishBlocked == \E s \in Spans : reg[s].state \in {"Absent", "Scheduling"}

\* nodes that own a Working span
Owners == {n \in Nodes : \E s \in Spans : reg[s].state = "Working" /\ reg[s].node = n}

\* heartbeat aggregator tick: the changefeed checkpointTs is the minimum over
\* the Working spans; it is not moved while a span is being added or while a
\* node's last heartbeat is older than the latest span added on that node
Publish ==
    /\ ~PublishBlocked
    /\ Owners # {}
    /\ \A n \in Owners : nodeWM[n].ckpt # NoTs /\ nodeWM[n].seq >= lastSeq[n]
    /\ published' = Min({nodeWM[n].ckpt : n \in Owners})
    /\ UNCHANGED <<regVars, balVars, netVars, nodeWM, lastSeq, pubAtCreate, lowStart, reported, cntVars, dmVars, sideVars>>

\* ---- membership ----

\* a node loss that leaves the Registry and the operators as they are
RemoveNodeKeepsSpans(n) ==
    /\ n \in alive
    /\ removals < MaxRemovals
    /\ Events < MaxEvents
    /\ removals' = removals + 1
    /\ alive' = alive \ {n}
    /\ bootstrapped' = bootstrapped \ {n}
    /\ reqQ' = [reqQ EXCEPT ![n] = <<>>]
    /\ msgQ' = [msgQ EXCEPT ![n] = <<>>]
    /\ dsp' = [dsp EXCEPT ![n] = NoEntries]
    /\ dmSeq' = [dmSeq EXCEPT ![n] = 0]
    /\ hbPending' = [hbPending EXCEPT ![n] = NoMsg]
    /\ maintainerID' = [maintainerID EXCEPT ![n] = NoMaintainer]
    /\ nodeWM' = [nodeWM EXCEPT ![n] = NoWM]
    /\ lastSeq' = [lastSeq EXCEPT ![n] = 0]
    /\ UNCHANGED <<group, reg, ops, addResult, balVars, published, pubAtCreate, lowStart, reported, joins, drops, apiMoves, dmVars, sideVars>>

\* Node lost: its spans are demoted to Absent and the operators on them are
\* cancelled; an operator of another node's span that targets the lost node
\* is cancelled (nothing sent yet) or redirected to the origin
RemoveNode(n) ==
    /\ n \in alive
    /\ removals < MaxRemovals
    /\ Events < MaxEvents
    /\ removals' = removals + 1
    /\ alive' = alive \ {n}
    /\ bootstrapped' = bootstrapped \ {n}
    /\ reg' = [s \in Spans |->
                 IF reg[s].node = n
                 THEN IF reg[s].state = "Removing" THEN NoSpanRec
                      ELSE [state |-> "Absent", node |-> NoNode, ckpt |-> reg[s].ckpt]
                 ELSE IF ops[s].type = "move" /\ ops[s].dest = n /\ ops[s].phase = "issued"
                      THEN [reg[s] EXCEPT !.state = "Working"]
                      ELSE reg[s]]
    /\ ops' = [s \in Spans |->
                 IF reg[s].node = n THEN NoOp
                 ELSE IF ops[s].type = "move" /\ ops[s].dest = n
                      THEN IF ops[s].phase = "issued" THEN NoOp
                           ELSE [ops[s] EXCEPT !.dest = ops[s].origin]
                      ELSE IF ops[s].type = "remove" /\ ops[s].origin = n THEN NoOp
                           ELSE ops[s]]
    /\ reqQ' = [reqQ EXCEPT ![n] = <<>>]
    /\ msgQ' = [msgQ EXCEPT ![n] = <<>>]
    /\ dsp' = [dsp EXCEPT ![n] = NoEntries]
    /\ dmSeq' = [dmSeq EXCEPT ![n] = 0]
    /\ hbPending' = [hbPending EXCEPT ![n] = NoMsg]
    /\ maintainerID' = [maintainerID EXCEPT ![n] = NoMaintainer]
    /\ nodeWM' = [nodeWM EXCEPT ![n] = NoWM]
    /\ lastSeq' = [lastSeq EXCEPT ![n] = 0]
    /\ UNCHANGED <<group, addResult, balVars, published, pubAtCreate, lowStart, reported, joins, drops, apiMoves, dmVars, sideVars>>

\* a node joins: the bootstrapper sends it a bootstrap request
NodeJoin(n) ==
    /\ n \notin alive
    /\ joins < MaxJoins
    /\ Events < MaxEvents
    /\ joins' = joins + 1
    /\ alive' = alive \cup {n}
    /\ reqQ' = [reqQ EXCEPT ![n] = <<Request("Bootstrap", 0, 0)>>]
    /\ UNCHANGED <<group, reg, ops, addResult, balVars, bootstrapped, msgQ, dsp, dmSeq, hbPending, maintainerID,
                   wmVars, removals, drops, apiMoves, dmVars, sideVars>>

\* ======================================================================
\* Part 4: the GC safepoint keeper (pkg/txnutil/gc)
\* ======================================================================

NoCall == [op |-> "none", ts |-> 0, force |-> FALSE, pushed |-> FALSE, err |-> FALSE,
           actual |-> 0, elapsed |-> 0, ret |-> "nil"]

\* NewManager: both times start at time.Now()
NewManager ==
    /\ gcNow = 0
    /\ gcm = [lastUpdatedTime |-> 0, lastSucceededTime |-> 0,
              lastSafePointTs |-> 0, isTiCDCBlockGC |-> FALSE]
    /\ gcOut = NoCall
    /\ gcSucceeded = FALSE

\* SetServiceGCSafepoint: after its retries the push either failed or returned
\* the minimum service safepoint PD holds
SetServiceGCSafepoint == {[err |-> TRUE, min |-> 0]} \cup {[err |-> FALSE, min |-> a] : a \in Uint}

\* a check of startTs that also rejects startTs = 0
StartTsBeforeGCFromZero(startTs, minServiceGCTs) == startTs < Wrap(minServiceGCTs + 1)

\* EnsureChangefeedStartTsSafety: the test of startTs against minServiceGCTs+1
StartTsBeforeGC(startTs, minServiceGCTs) == startTs > 0 /\ startTs < Wrap(minServiceGCTs + 1)

\* EnsureChangefeedStartTsSafety(startTs) with the push returning r
EnsureChangefeedStartTsSafety(startTs, r) ==
    /\ gcOut' = [op |-> "Ensure", ts |-> startTs, force |-> FALSE, pushed |-> TRUE, err |-> r.err,
                 actual |-> r.min, elapsed |-> 0,
                 ret |-> IF r.err THEN "PushError"
                         ELSE IF StartTsBeforeGC(startTs, r.min) THEN "ErrStartTsBeforeGC"
                         ELSE "nil"]
    /\ UNCHANGED <<gcNow, gcm, gcSucceeded, mainVars, cliVars, barVars, laterVars>>

\* a manager that absorbs every failed push
SafepointExpiredNever(elapsed) == FALSE

\* TryUpdateGCSafePoint: time.Since(lastSucceededTime) >= gcTTL seconds
SafepointExpired(elapsed) == elapsed >= GcTTL

\* TryUpdateGCSafePoint that takes TiCDC to block GC whenever the minimum is
\* not below checkpointTs
TryUpdateBlocksFromAbove(checkpointTs, forceUpdate, r) ==
    /\ IF gcNow - gcm.lastUpdatedTime < GcSafepointUpdateInterval /\ ~forceUpdate
       THEN /\ gcOut' = [op |-> "TryUpdate", ts |-> checkpointTs, force |-> forceUpdate,
                         pushed |-> FALSE, err |-> FALSE, actual |-> 0, elapsed |-> 0, ret |-> "nil"]
            /\ UNCHANGED <<gcm, gcSucceeded>>
       ELSE LET elapsed == gcNow - gcm.lastSucceededTime
            IN /\ gcOut' = [op |-> "TryUpdate", ts |-> checkpointTs, force |-> forceUpdate,
                            pushed |-> TRUE, err |-> r.err, actual |-> r.min, elapsed |-> elapsed,
                            ret |-> IF r.err /\ SafepointExpired(elapsed)
                                    THEN "ErrUpdateServiceSafepointFailed" ELSE "nil"]
               /\ gcm' = IF r.err
                         THEN [gcm EXCEPT !.lastUpdatedTime = gcNow]
                         ELSE [lastUpdatedTime |-> gcNow, lastSucceededTime |-> gcNow,
                               lastSafePointTs |-> r.min, isTiCDCBlockGC |-> (r.min >= checkpointTs)]
               /\ gcSucceeded' = (gcSucceeded \/ ~r.err)
    /\ UNCHANGED <<gcNow, mainVars, cliVars, barVars, laterVars>>

\* TryUpdateGCSafePoint that stores the attempt time only when the push succeeds
TryUpdateRetriesAtOnce(checkpointTs, forceUpdate, r) ==
    /\ IF gcNow - gcm.lastUpdatedTime < GcSafepointUpdateInterval /\ ~forceUpdate
       THEN /\ gcOut' = [op |-> "TryUpdate", ts |-> checkpointTs, force |-> forceUpdate,
                         pushed |-> FALSE, err |-> FALSE, actual |-> 0, elapsed |-> 0, ret |-> "nil"]
            /\ UNCHANGED <<gcm, gcSucceeded>>
       ELSE LET elapsed == gcNow - gcm.lastSucceededTime
            IN /\ gcOut' = [op |-> "TryUpdate", ts |-> checkpointTs, force |-> forceUpdate,
                            pushed |-> TRUE, err |-> r.err, actual |-> r.min, elapsed |-> elapsed,
                            ret |-> IF r.err /\ SafepointExpired(elapsed)
                                    THEN "ErrUpdateServiceSafepointFailed" ELSE "nil"]
               /\ gcm' = IF r.err
                         THEN gcm
                         ELSE [lastUpdatedTime |-> gcNow, lastSucceededTime |-> gcNow,
                               lastSafePointTs |-> r.min, isTiCDCBlockGC |-> (r.min = checkpointTs)]
               /\ gcSucceeded' = (gcSucceeded \/ ~r.err)
    /\ UNCHANGED <<gcNow, mainVars, cliVars, barVars, laterVars>>

\* TryUpdateGCSafePoint(checkpointTs, forceUpdate) with the push returning r
TryUpdateGCSafePoint(checkpointTs, forceUpdate, r) ==
    /\ IF gcNow - gcm.lastUpdatedTime < GcSafepointUpdateInterval /\ ~forceUpdate
       THEN /\ gcOut' = [op |-> "TryUpdate", ts |-> checkpointTs, force |-> forceUpdate,
                         pushed |-> FALSE, err |-> FALSE, actual |-> 0, elapsed |-> 0, ret |-> "nil"]
            /\ UNCHANGED <<gcm, gcSucceeded>>
       ELSE LET elapsed == gcNow - gcm.lastSucceededTime
            IN /\ gcOut' = [op |-> "TryUpdate", ts |-> checkpointTs, force |-> forceUpdate,
                            pushed |-> TRUE, err |-> r.err, actual |-> r.min, elapsed |-> elapsed,
                            ret |-> IF r.err /\ SafepointExpired(elapsed)
                                    THEN "ErrUpdateServiceSafepointFailed" ELSE "nil"]
               /\ gcm' = IF r.err
                         THEN [gcm EXCEPT !.lastUpdatedTime = gcNow]
                         ELSE [lastUpdatedTime |-> gcNow, lastSucceededTime |-> gcNow,
                               lastSafePointTs |-> r.min, isTiCDCBlockGC |-> (r.min = checkpointTs)]
               /\ gcSucceeded' = (gcSucceeded \/ ~r.err)
    /\ UNCHANGED <<gcNow, mainVars, cliVars, barVars, laterVars>>

\* oracle.GetTimeFromTS: the physical time of a timestamp, its high bits
GetTimeFromTS(ts) == ts \div LogicalRange

\* CheckStaleCheckpointTs: gcSafepointUpperBound := checkpointTs - 1, in uint64
gcSafepointUpperBound(checkpointTs) == Wrap(checkpointTs + MaxUint)

\* CheckStaleCheckpointTs(checkpointTs)
CheckStaleCheckpointTs(checkpointTs) ==
    /\ gcOut' = [op |-> "CheckStale", ts |-> checkpointTs, force |-> FALSE, pushed |-> FALSE,
                 err |-> FALSE, actual |-> 0, elapsed |-> 0,
                 ret |-> IF gcm.isTiCDCBlockGC
                         THEN IF gcNow - GetTimeFromTS(gcSafepointUpperBound(checkpointTs)) > GcTTL
                              THEN "ErrGCTTLExceeded" ELSE "nil"
                         ELSE IF gcSafepointUpperBound(checkpointTs) < gcm.lastSafePointTs
                              THEN "ErrSnapshotLostByGC" ELSE "nil"]
    /\ UNCHANGED <<gcNow, gcm, gcSucceeded, mainVars, cliVars, barVars, laterVars>>

\* time passes
GcClockTick ==
    /\ gcNow < MaxClock
    /\ gcNow' = gcNow + 1
    /\ UNCHANGED <<gcm, gcOut, gcSucceeded, mainVars, cliVars, barVars, laterVars>>

\* ======================================================================
\* Part 5: `cdc cli changefeed resume` (cmd/cdc/cli/cli_changefeed_resume.go)
\* ======================================================================

\* a flag value is a sequence of characters
DigitChars == <<"0", "1", "2", "3", "4">>
IsDigit(c) == \E i \in 1..Len(DigitChars) : DigitChars[i] = c
DigitVal(c) == (CHOOSE i \in 1..Len(DigitChars) : DigitChars[i] = c) - 1

\* values of --overwrite-checkpoint-ts: unset, spellings of now, words, and
\* numerals of up to MaxDigits digits
MaxDigits == 2
Numerals == UNION {[1..n -> {DigitChars[i] : i \in 1..Len(DigitChars)}] : n \in 1..MaxDigits}
Flags == {<<>>, <<"n", "o", "w">>, <<"N", "O", "W">>, <<"N", "o", "w">>,
          <<"a">>, <<"-", "1">>, <<"1", "x">>, <<"n", "o">>} \cup Numerals

\* strings.ToLower
LowerChar(c) == CASE c = "N" -> "n" [] c = "O" -> "o" [] c = "W" -> "w" [] OTHER -> c
ToLower(s) == [i \in 1..Len(s) |-> LowerChar(s[i])]

\* strconv.ParseUint(s, 10, 64): digits only, at least one, and the value
\* fits in the unsigned width; acc is the value of the digits read so far
RECURSIVE ParseUintFrom(_, _, _)
ParseUintFrom(s, i, acc) ==
    IF i > Len(s) THEN [err |-> FALSE, val |-> acc]
    ELSE IF ~IsDigit(s[i]) THEN [err |-> TRUE, val |-> 0]
    ELSE IF acc * 10 + DigitVal(s[i]) > MaxUint THEN [err |-> TRUE, val |-> MaxUint]
    ELSE ParseUintFrom(s, i + 1, acc * 10 + DigitVal(s[i]))

ParseUint(s) == IF Len(s) = 0 THEN [err |-> TRUE, val |-> 0] ELSE ParseUintFrom(s, 1, 0)

\* oracle.ComposeTS(physical, logical): the physical time in the high bits
ComposeTS(physical, logical) == physical * LogicalRange + logical

\* answers of the API server: the changefeed's detail and the current TSO
Tsos == [Timestamp : 0..1, LogicTime : 0..(LogicalRange - 1)]
NoTso == [Timestamp |-> 0, LogicTime |-> 0]

\* a validation that lets the current TSO itself count as in the future
CheckpointTsIsInFutureOrNow(checkpointTs, tso) ==
    checkpointTs >= ComposeTS(tso.Timestamp, tso.LogicTime)

\* validateParams: checkpointTs > oracle.ComposeTS(tso.Timestamp, tso.LogicTime)
CheckpointTsIsInFuture(checkpointTs, tso) ==
    checkpointTs > ComposeTS(tso.Timestamp, tso.LogicTime)

\* validateParams on the options o, with getChangefeedInfo failing or not and
\* getTSO failing or returning tso: the options it leaves and its error
validateParams(o, infoErr, tsoErr, tso) ==
    IF infoErr THEN [o |-> o, err |-> "GetInfoError"]
    ELSE IF tsoErr THEN [o |-> [o EXCEPT !.hasDetail = TRUE], err |-> "GetTsoError"]
    ELSE LET o1 == [o EXCEPT !.hasDetail = TRUE, !.currentTso = tso, !.hasTso = TRUE]
             parsed == ParseUint(o.overwriteCheckpointTs)
         IN IF Len(o.overwriteCheckpointTs) = 0 THEN [o |-> o1, err |-> "nil"]
            ELSE IF ToLower(o.overwriteCheckpointTs) = <<"n", "o", "w">>
            THEN [o |-> [o1 EXCEPT !.checkpointTs = ComposeTS(tso.Timestamp, tso.LogicTime)],
                  err |-> "nil"]
            ELSE IF parsed.err THEN [o |-> o1, err |-> "ErrCliInvalidCheckpointTs"]
            ELSE IF parsed.val = 0 THEN [o |-> o1, err |-> "ErrCliInvalidCheckpointTs"]
            ELSE IF CheckpointTsIsInFuture(parsed.val, tso)
            THEN [o |-> o1, err |-> "ErrCliCheckpointTsIsInFuture"]
            ELSE [o |-> [o1 EXCEPT !.checkpointTs = parsed.val], err |-> "nil"]

\* newResumeChangefeedOptions and addFlags: the flags are set, the rest is zero
NewOptions(flag, noConfirm) ==
    [overwriteCheckpointTs |-> flag, noConfirm |-> noConfirm, hasDetail |-> FALSE,
     hasTso |-> FALSE, currentTso |-> NoTso, checkpointTs |-> 0]

NoRequest == -1

\* the command before it runs, with the answers the API server will give
InitCli ==
    \E flag \in Flags, noConfirm \in BOOLEAN, infoErr \in BOOLEAN, tsoErr \in BOOLEAN, tso \in Tsos :
        /\ cliOpts = NewOptions(flag, noConfirm)
        /\ cliEnv = [infoErr |-> infoErr, tsoErr |-> tsoErr, tso |-> tso]
        /\ cliPc = "start"
        /\ cliRet = "nil"
        /\ cliRequest = NoRequest

\* no command
InitCliIdle ==
    /\ cliOpts = NewOptions(<<>>, FALSE)
    /\ cliEnv = [infoErr |-> FALSE, tsoErr |-> FALSE, tso |-> NoTso]
    /\ cliPc = "done"
    /\ cliRet = "nil"
    /\ cliRequest = NoRequest

\* validateParams called on fresh options
ValidateParams ==
    /\ cliPc = "start"
    /\ LET v == validateParams(cliOpts, cliEnv.infoErr, cliEnv.tsoErr, cliEnv.tso)
       IN /\ cliOpts' = v.o
          /\ cliRet' = v.err
          /\ cliPc' = "validated"
    /\ UNCHANGED <<cliEnv, cliRequest, mainVars, gcVars, barVars, laterVars>>

\* run: validateParams, getResumeChangefeedConfig, the confirmation (the user
\* answers yes or no unless --no-confirm) and the resume request
Run(confirmed, resumeErr) ==
    /\ cliPc = "start"
    /\ LET v == validateParams(cliOpts, cliEnv.infoErr, cliEnv.tsoErr, cliEnv.tso)
       IN /\ cliOpts' = v.o
          /\ cliPc' = "ran"
          /\ IF v.err # "nil"
             THEN cliRet' = v.err /\ cliRequest' = NoRequest
             ELSE IF ~cliOpts.noConfirm /\ ~confirmed
             THEN cliRet' = "ConfirmError" /\ cliRequest' = NoRequest
             ELSE /\ cliRequest' = v.o.checkpointTs
                  /\ cliRet' = IF resumeErr THEN "ResumeError" ELSE "nil"
    /\ UNCHANGED <<cliEnv, mainVars, gcVars, barVars, laterVars>>

\* ======================================================================
\* Barrier controller (spec 4.7): a blocking event at BarrierTs gates the
\* changefeed checkpointTs until the DDL is written and the barrier released
\* ======================================================================

NoBarrier == [state |-> "None", ts |-> 0, spans |-> {}, owing |-> {}]

\* the dispatchers whose stream carries the blocking event: every span for a
\* global event, the table's span (span 1) for a single-table event
EventSpans == IF barScope = "global" THEN Spans ELSE {1}

\* step 1: a dispatcher that has reached the event pins its checkpoint at
\* barrierTs - 1 until it receives ReleaseBarrier
Pinned(s) == s \in EventSpans /\ bdCkpt[s] = BarrierTs - 1 /\ barMsg[s] # "Release"

\* step 2: the span set of a barrier reported by span s
SpanSet(s) == IF barScope = "global" THEN {x \in Spans : bdCkpt[x] # NoTs} ELSE {s}

\* a changefeed checkpointTs that is not clamped
ClampNever(ts) == ts

\* step 3: checkpointTs is clamped at barrierTs - 1 while the barrier is open
Clamp(ts) == IF barrier.state \in {"Pending", "Acking"} THEN Min({ts, barrier.ts - 1}) ELSE ts

\* a lost dispatcher whose acks are kept
OwingKept(b, s) == b.owing

\* step 5: the span of a lost dispatcher owes its ack again
OwingAfterLoss(b, s) == IF s \in b.spans THEN b.owing \cup {s} ELSE b.owing

NewBarrierController(scopes) ==
    /\ barScope \in scopes
    /\ barrier = NoBarrier
    /\ barMsg = [s \in Spans |-> "None"]
    /\ bdCkpt = [s \in Spans |-> 0]
    /\ bdAcked = [s \in Spans |-> FALSE]
    /\ barWM = [s \in Spans |-> 0]
    /\ changefeedCkpt = 0
    /\ ddl = "none"
    /\ barLosses = 0

\* a dispatcher makes progress unless it is pinned at the event
DispatcherAdvance(s) ==
    /\ bdCkpt[s] # NoTs
    /\ bdCkpt[s] < MaxBarTs
    /\ ~Pinned(s)
    /\ bdCkpt' = [bdCkpt EXCEPT ![s] = @ + 1]
    /\ UNCHANGED <<barScope, barrier, barMsg, bdAcked, barWM, changefeedCkpt, ddl, barLosses, mainVars, gcVars, cliVars, laterVars>>

\* the heartbeat of the dispatcher of span s reaches the maintainer: the
\* watermark is folded with max; a pinned dispatcher reports the blocking
\* event (steps 1-2), acks PrepareBarrier once its checkpoint is
\* barrierTs - 1 (step 4), and acks ReleaseBarrier; the barrier is Done when
\* the last ReleaseBarrier is acked
BarrierHeartbeat(s) ==
    /\ bdCkpt[s] # NoTs
    /\ barWM' = [barWM EXCEPT ![s] = Max({@, bdCkpt[s]})]
    /\ IF barrier.state = "None" /\ Pinned(s)
       THEN /\ barrier' = [state |-> "Pending", ts |-> BarrierTs, spans |-> SpanSet(s), owing |-> SpanSet(s)]
            /\ UNCHANGED bdAcked
       ELSE IF barrier.state = "Acking" /\ barMsg[s] = "Prepare" /\ bdCkpt[s] = barrier.ts - 1
       THEN /\ barrier' = [barrier EXCEPT !.owing = @ \ {s}]
            /\ bdAcked' = [bdAcked EXCEPT ![s] = TRUE]
       ELSE IF barrier.state = "Acking" /\ barMsg[s] = "Release"
       THEN /\ barrier' = [barrier EXCEPT !.owing = @ \ {s},
                                          !.state = IF barrier.owing \subseteq {s} THEN "Done" ELSE @]
            /\ UNCHANGED bdAcked
       ELSE UNCHANGED <<barrier, bdAcked>>
    /\ UNCHANGED <<barScope, barMsg, bdCkpt, changefeedCkpt, ddl, barLosses, mainVars, gcVars, cliVars, laterVars>>

\* step 3: PrepareBarrier is broadcast to the affected dispatchers
PrepareBarrier ==
    /\ barrier.state = "Pending"
    /\ barrier' = [barrier EXCEPT !.state = "Acking"]
    /\ barMsg' = [s \in Spans |-> IF s \in barrier.spans THEN "Prepare" ELSE barMsg[s]]
    /\ UNCHANGED <<barScope, bdCkpt, bdAcked, barWM, changefeedCkpt, ddl, barLosses, mainVars, gcVars, cliVars, laterVars>>

\* step 4: every affected dispatcher has acked; the table-trigger dispatcher
\* writes the DDL to the sink
WriteDDL ==
    /\ barrier.state = "Acking"
    /\ barrier.owing = {}
    /\ ddl = "none"
    /\ ddl' = "written"
    /\ UNCHANGED <<barScope, barrier, barMsg, bdCkpt, bdAcked, barWM, changefeedCkpt, barLosses, mainVars, gcVars, cliVars, laterVars>>

\* step 4: the success ack of the table-trigger dispatcher arrives and
\* ReleaseBarrier is broadcast; every affected dispatcher owes its ack
ReleaseBarrier ==
    /\ barrier.state = "Acking"
    /\ barrier.owing = {}
    /\ ddl = "written"
    /\ barrier' = [barrier EXCEPT !.owing = barrier.spans]
    /\ barMsg' = [s \in Spans |-> IF s \in barrier.spans THEN "Release" ELSE barMsg[s]]
    /\ UNCHANGED <<barScope, bdCkpt, bdAcked, barWM, changefeedCkpt, ddl, barLosses, mainVars, gcVars, cliVars, laterVars>>

\* aggregator tick (4.6 step 3): the min over the Working spans, clamped
AggregatorTick ==
    /\ \E s \in Spans : bdCkpt[s] # NoTs
    /\ changefeedCkpt' = Max({changefeedCkpt, Clamp(Min({barWM[s] : s \in {x \in Spans : bdCkpt[x] # NoTs}}))})
    /\ UNCHANGED <<barScope, barrier, barMsg, bdCkpt, bdAcked, barWM, ddl, barLosses, mainVars, gcVars, cliVars, laterVars>>

\* step 5: a dispatcher is lost while the barrier is open; its span is demoted
LoseDispatcher(s) ==
    /\ barLosses < MaxBarLosses
    /\ barrier.state \in {"Pending", "Acking"}
    /\ bdCkpt[s] # NoTs
    /\ barLosses' = barLosses + 1
    /\ bdCkpt' = [bdCkpt EXCEPT ![s] = NoTs]
    /\ bdAcked' = [bdAcked EXCEPT ![s] = FALSE]
    /\ barrier' = [barrier EXCEPT !.owing = OwingAfterLoss(barrier, s)]
    /\ UNCHANGED <<barScope, barMsg, barWM, changefeedCkpt, ddl, mainVars, gcVars, cliVars, laterVars>>

\* step 5: the span is re-scheduled; the new dispatcher starts at the
\* Registry's watermark of the span
Reschedule(s) ==
    /\ bdCkpt[s] = NoTs
    /\ bdCkpt' = [bdCkpt EXCEPT ![s] = barWM[s]]
    /\ UNCHANGED <<barScope, barrier, barMsg, bdAcked, barWM, changefeedCkpt, ddl, barLosses, mainVars, gcVars, cliVars, laterVars>>

\* ======================================================================
\* Txn cache of the MySQL sink (causality/txn_cache.go)
\* ======================================================================

NoAdd == [ret |-> "none", len |-> 0, seen |-> 0, wait |-> "open"]

\* newTxnCache(opt): opt.Size > 0, an empty channel, isBlocked false
newTxnCache(strategies, sizes) ==
    /\ txnCache \in [BlockStrategy : strategies, upperSize : sizes, len : {0}, isBlocked : {FALSE}]
    /\ addOut = NoAdd
    /\ tcWait = "open"

\* the wait state after an add with result ret
WaitAfterAdd(ret, len) ==
    IF ret THEN "open" ELSE IF len = 0 THEN "emptied" ELSE "rejected"

\* boundedTxnCache.add; the consumer may take txns while the call runs:
\* l is ch.Len() as the call reads it, k the length when the txn is pushed
boundedTxnCacheAdd ==
    /\ txnCache.BlockStrategy = "waitAvailable"
    /\ \E l \in 0..txnCache.len : \E k \in 0..l :
          IF l > txnCache.upperSize
          THEN /\ txnCache' = [txnCache EXCEPT !.len = k]
               /\ addOut' = [ret |-> "false", len |-> txnCache.len, seen |-> l, wait |-> tcWait]
               /\ tcWait' = WaitAfterAdd(FALSE, k)
          ELSE /\ txnCache' = [txnCache EXCEPT !.len = k + 1]
               /\ addOut' = [ret |-> "true", len |-> txnCache.len, seen |-> l, wait |-> tcWait]
               /\ tcWait' = WaitAfterAdd(TRUE, k + 1)
    /\ UNCHANGED nonTxnVars

\* an unblock test that does not wait for the cache to be empty
UnblocksAtOnce(isBlocked, len) == isBlocked

\* boundedTxnCacheWithBlock.add, first test: blocked and drained
Unblocks(isBlocked, len) == isBlocked /\ len <= 0

\* boundedTxnCacheWithBlock.add; l0 is ch.Len() at the first test, l at the
\* second, k the length when the txn is pushed
boundedTxnCacheWithBlockAdd ==
    /\ txnCache.BlockStrategy = "waitEmpty"
    /\ \E l0 \in 0..txnCache.len : \E l \in 0..l0 : \E k \in 0..l :
          LET blocked == txnCache.isBlocked /\ ~Unblocks(txnCache.isBlocked, l0)
          IN IF blocked
             THEN /\ txnCache' = [txnCache EXCEPT !.len = k]
                  /\ addOut' = [ret |-> "false", len |-> txnCache.len, seen |-> l0, wait |-> tcWait]
                  /\ tcWait' = WaitAfterAdd(FALSE, k)
             ELSE IF l > txnCache.upperSize
             THEN /\ txnCache' = [txnCache EXCEPT !.len = k, !.isBlocked = TRUE]
                  /\ addOut' = [ret |-> "false", len |-> txnCache.len, seen |-> l0, wait |-> tcWait]
                  /\ tcWait' = WaitAfterAdd(FALSE, k)
             ELSE /\ txnCache' = [txnCache EXCEPT !.len = k + 1, !.isBlocked = FALSE]
                  /\ addOut' = [ret |-> "true", len |-> txnCache.len, seen |-> l0, wait |-> tcWait]
                  /\ tcWait' = WaitAfterAdd(TRUE, k + 1)
    /\ UNCHANGED nonTxnVars

\* the consumer takes a txn from out()
TxnCacheConsume ==
    /\ txnCache.len > 0
    /\ txnCache' = [txnCache EXCEPT !.len = @ - 1]
    /\ tcWait' = IF tcWait = "rejected" /\ txnCache.len = 1 THEN "emptied" ELSE tcWait
    /\ UNCHANGED <<addOut, nonTxnVars>>

(***************************************************************************)
(* The dispatcher manager's handlers of schedule requests and heartbeat    *)
(* responses (helper.go).                                                  *)
(***************************************************************************)

\* the schema of a dispatcher's table
SchemaOf(d) == (d % NumSchemas) + 1

\* heartbeatpb.ScheduleDispatcherRequest
ScheduleRequests ==
    {[ScheduleAction |-> a, DispatcherID |-> d, SchemaID |-> SchemaOf(d)] :
        a \in {"Create", "Remove"}, d \in DispatcherIDs}

\* heartbeatpb.DispatcherStatus: its InfluencedDispatchers
DispatcherStatuses ==
    {[InfluenceType |-> "Normal", DispatcherIDs |-> ds, SchemaID |-> 0,
      ExcludeDispatcherId |-> NoDispatcher] : ds \in SUBSET DispatcherIDs}
    \cup
    {[InfluenceType |-> "DB", DispatcherIDs |-> {}, SchemaID |-> sc,
      ExcludeDispatcherId |-> x] : sc \in Schemas, x \in DispatcherIDs \cup {NoDispatcher}}
    \cup
    {[InfluenceType |-> "All", DispatcherIDs |-> {}, SchemaID |-> 0,
      ExcludeDispatcherId |-> x] : x \in DispatcherIDs \cup {NoDispatcher}}

\* heartbeatpb.HeartBeatResponse.DispatcherStatuses
HeartBeatResponses ==
    UNION {[1..n -> DispatcherStatuses] : n \in 1..MaxStatuses}

NoResponse == [resp |-> <<>>, pushes |-> {}]

\* an EventDispatcherManager holding the dispatchers ds
ManagerOf(ds) ==
    [dispatcherMap |-> ds,
     schemaIDToDispatchers |-> [sc \in Schemas |-> {d \in ds : SchemaOf(d) = sc}]]

\* the dispatcher manager with the dispatchers of one of dss, nothing handled
NewEventDispatcherManager(dss) ==
    /\ edm \in {ManagerOf(ds) : ds \in dss}
    /\ schedQ = <<>>
    /\ schedOut = [batch |-> <<>>, handled |-> <<>>]
    /\ hbOut = NoResponse

\* EventDispatcherManager.removeDispatcher
removeDispatcher(e, id) ==
    [dispatcherMap |-> e.dispatcherMap \ {id},
     schemaIDToDispatchers |-> [sc \in Schemas |-> e.schemaIDToDispatchers[sc] \ {id}]]

\* EventDispatcherManager.newDispatchers: the dispatchers of infos from
\* position i on are created, one that exists already is left as it is
RECURSIVE newDispatchers(_, _, _)
newDispatchers(e, infos, i) ==
    IF i > Len(infos)
    THEN e
    ELSE LET info == infos[i]
         IN IF info.Id \in e.dispatcherMap
            THEN newDispatchers(e, infos, i + 1)
            ELSE newDispatchers(
                     [dispatcherMap |-> e.dispatcherMap \cup {info.Id},
                      schemaIDToDispatchers |->
                          [e.schemaIDToDispatchers EXCEPT ![info.SchemaID] = @ \cup {info.Id}]],
                     infos, i + 1)

\* GetType with Remove requests batchable like Create requests
GetTypeBatchable(event) == [DataGroup |-> 1, Property |-> "BatchableData"]

\* SchedulerDispatcherRequestHandler.GetType, lines 242-253
GetType(event) ==
    IF event.ScheduleAction = "Create"
    THEN [DataGroup |-> 1, Property |-> "BatchableData"]
    ELSE [DataGroup |-> 2, Property |-> "NonBatchable"]

\* the batches the dynamic stream may hand to Handle: the first event of the
\* path alone, or a prefix of batchable events of one type
Batches(q) ==
    {SubSeq(q, 1, n) : n \in {k \in 1..Len(q) :
        k = 1 \/ \A i \in 1..k : /\ GetType(q[i]) = GetType(q[1])
                                /\ GetType(q[i]).Property = "BatchableData"}}

\* SchedulerDispatcherRequestHandler.Handle, lines 190-209: the loop over reqs
RECURSIVE HandleLoop(_, _, _, _)
HandleLoop(e, infos, reqs, i) ==
    IF i > Len(reqs)
    THEN [edm |-> e, infos |-> infos]
    ELSE IF reqs[i].ScheduleAction = "Create"
         THEN HandleLoop(e, Append(infos, [Id |-> reqs[i].DispatcherID,
                                           SchemaID |-> reqs[i].SchemaID]), reqs, i + 1)
         ELSE HandleLoop(removeDispatcher(e, reqs[i].DispatcherID), infos, reqs, i + 1)

\* SchedulerDispatcherRequestHandler.Handle, lines 187-227
SchedulerHandle(e, reqs) ==
    LET r == HandleLoop(e, <<>>, reqs, 1)
    IN IF Len(r.infos) > 0 THEN newDispatchers(r.edm, r.infos, 1) ELSE r.edm

\* the maintainer's schedule request reaches the changefeed's path
PushSchedule ==
    /\ Len(schedQ) + Len(schedOut.handled) < MaxReqs
    /\ \E req \in ScheduleRequests : schedQ' = Append(schedQ, req)
    /\ UNCHANGED <<edm, schedOut, hbOut, nonEdmVars>>

\* the dynamic stream hands the next batch of the path to Handle
SchedulerDispatcherRequestHandle ==
    \E b \in Batches(schedQ) :
        /\ edm' = SchedulerHandle(edm, b)
        /\ schedQ' = SubSeq(schedQ, Len(b) + 1, Len(schedQ))
        /\ schedOut' = [batch |-> b, handled |-> schedOut.handled \o b]
        /\ UNCHANGED <<hbOut, nonEdmVars>>

\* a status pushed to every dispatcher of the schema or of the map, the
\* excluded one too
InfluencedWithExcluded(e, st) ==
    CASE st.InfluenceType = "Normal" -> st.DispatcherIDs
      [] st.InfluenceType = "DB" -> e.schemaIDToDispatchers[st.SchemaID]
      [] st.InfluenceType = "All" -> e.dispatcherMap

\* HeartBeatResponseHandler.Handle, lines 295-320: the dispatchers one
\* status is pushed to
InfluencedDispatchers(e, st) ==
    CASE st.InfluenceType = "Normal" -> st.DispatcherIDs
      [] st.InfluenceType = "DB" ->
             {id \in e.schemaIDToDispatchers[st.SchemaID] : id # st.ExcludeDispatcherId}
      [] st.InfluenceType = "All" ->
             {id \in e.dispatcherMap : id # st.ExcludeDispatcherId}

\* HeartBeatResponseHandler.Handle, lines 287-323
HeartBeatResponseHandle ==
    \E resp \in HeartBeatResponses :
        /\ hbOut' = [resp |-> resp,
                     pushes |-> {<<i, id>> \in (DOMAIN resp) \X DispatcherIDs :
                                    id \in InfluencedDispatchers(edm, resp[i])}]
        /\ UNCHANGED <<edm, schedQ, schedOut, nonEdmVars>>

\* the requests reqs from position i on, each handled alone in its turn
RECURSIVE HandledInOrder(_, _, _)
HandledInOrder(e, reqs, i) ==
    IF i > Len(reqs)
    THEN e
    ELSE HandledInOrder(
             IF reqs[i].ScheduleAction = "Create"
             THEN newDispatchers(e, <<[Id |-> reqs[i].DispatcherID,
                                       SchemaID |-> reqs[i].SchemaID]>>, 1)
             ELSE removeDispatcher(e, reqs[i].DispatcherID),
             reqs, i + 1)

(***************************************************************************)
(* The event store: its span index, its table states and the GC items it   *)
(* hands to the gc manager (part_009).                                     *)
(***************************************************************************)

\* no entry in eventStore.spans
NoTableState == [span |-> 0, watermark |-> 0]

NoStoreCall == [op |-> "none", d |-> NoDispatcher, span |-> 0, ts |-> 0, ret |-> "none"]

\* NewEventStore, lines 117-124
NewEventStore ==
    /\ esTables = [sp \in StoreSpans |-> NoDispatcher]
    /\ spans = [d \in StoreDispatchers |-> NoTableState]
    /\ gcItems = <<>>
    /\ regAt = [d \in StoreDispatchers |-> 0]
    /\ esCall = NoStoreCall
    /\ registers = 0

\* a panic ends the process
Panicked == esCall.ret = "panic"

\* eventStore.getTableStat, lines 164-176: "nil", "panic", or "found" when
\* the table state of the span's dispatcher is returned
getTableStat(span) ==
    IF esTables[span] = NoDispatcher
    THEN "nil"
    ELSE IF spans[esTables[span]] = NoTableState
         THEN "panic"
         ELSE "found"

\* eventStore.writeEvent, lines 276-286, called by the puller for a span a
\* dispatcher is registered on
writeEvent(span) ==
    /\ ~Panicked
    /\ \E d \in StoreDispatchers : spans[d] # NoTableState /\ spans[d].span = span
    /\ esCall' = [op |-> "writeEvent", d |-> NoDispatcher, span |-> span, ts |-> 0,
                  ret |-> IF getTableStat(span) = "found" THEN "sent" ELSE "panic"]
    /\ UNCHANGED <<esTables, spans, gcItems, regAt, registers, nonEsVars>>

\* eventStore.RegisterDispatcher, lines 297-312
RegisterDispatcher(dispatcherID, span, startTS) ==
    /\ ~Panicked
    /\ registers < MaxRegisters
    /\ esTables' = [esTables EXCEPT ![span] = dispatcherID]
    /\ spans' = [spans EXCEPT ![dispatcherID] = [span |-> span, watermark |-> startTS]]
    /\ regAt' = [regAt EXCEPT ![dispatcherID] = Len(gcItems)]
    /\ registers' = registers + 1
    /\ esCall' = [op |-> "Register", d |-> dispatcherID, span |-> span, ts |-> startTS,
                  ret |-> "nil"]
    /\ UNCHANGED <<gcItems, nonEsVars>>

\* UpdateDispatcherSendTS that takes every sendTS
OutdatedNever(sendTS, currentWatermark) == FALSE

\* UpdateDispatcherSendTS, line 320: sendTS <= currentWatermark
Outdated(sendTS, currentWatermark) == sendTS <= currentWatermark

\* eventStore.UpdateDispatcherSendTS, lines 314-330; the store's mutex makes
\* the compare-and-swap succeed at once
UpdateDispatcherSendTS(dispatcherID, sendTS) ==
    /\ ~Panicked
    /\ Len(gcItems) < MaxGCItems
          \/ spans[dispatcherID] = NoTableState
          \/ Outdated(sendTS, spans[dispatcherID].watermark)
    /\ esCall' = [op |-> "Update", d |-> dispatcherID, span |-> 0, ts |-> sendTS, ret |-> "nil"]
    /\ IF spans[dispatcherID] # NoTableState
          /\ ~Outdated(sendTS, spans[dispatcherID].watermark)
       THEN /\ spans' = [spans EXCEPT ![dispatcherID].watermark = sendTS]
            /\ gcItems' = Append(gcItems, [d |-> dispatcherID,
                                           span |-> spans[dispatcherID].span,
                                           start |-> spans[dispatcherID].watermark,
                                           end |-> sendTS])
       ELSE UNCHANGED <<spans, gcItems>>
    /\ UNCHANGED <<esTables, regAt, registers, nonEsVars>>

\* eventStore.UnregisterDispatcher, lines 332-341
UnregisterDispatcher(dispatcherID) ==
    /\ ~Panicked
    /\ esCall' = [op |-> "Unregister", d |-> dispatcherID, span |-> 0, ts |-> 0, ret |-> "nil"]
    /\ IF spans[dispatcherID] # NoTableState
       THEN /\ esTables' = [esTables EXCEPT ![spans[dispatcherID].span] = NoDispatcher]
            /\ spans' = [spans EXCEPT ![dispatcherID] = NoTableState]
       ELSE UNCHANGED <<esTables, spans>>
    /\ UNCHANGED <<gcItems, regAt, registers, nonEsVars>>

(***************************************************************************)
(* Span operations on keys (span_op.go).                                   *)
(***************************************************************************)

\* byte strings; the empty one stands for a nil or empty key
Keys == UNION {[1..n -> 0..MaxByte] : n \in 0..MaxKeyLen}

\* heartbeatpb.TableSpan: its StartKey and EndKey
TableSpans == [StartKey : Keys, EndKey : Keys]

\* a < b in byte order: a is a proper prefix of b, or smaller at the first
\* byte where they differ
KeyLess(a, b) ==
    \/ Len(a) < Len(b) /\ \A i \in 1..Len(a) : a[i] = b[i]
    \/ \E i \in 1..Len(a) :
          /\ i <= Len(b)
          /\ a[i] < b[i]
          /\ \A j \in 1..(i - 1) : a[j] = b[j]

\* the keys of a span, an empty StartKey standing for the least key and an
\* empty EndKey for a key after all keys
Covers(span) ==
    {k \in Keys : /\ span.StartKey = <<>> \/ ~KeyLess(k, span.StartKey)
                  /\ span.EndKey = <<>> \/ KeyLess(k, span.EndKey)}

\* spans that hold a key
NonEmptySpans == {sp \in TableSpans : Covers(sp) # {}}

\* bytes.Compare
bytesCompare(a, b) ==
    LET diff == {i \in 1..Len(a) : i <= Len(b) /\ a[i] # b[i]}
    IN IF diff # {}
       THEN IF a[Min(diff)] < b[Min(diff)] THEN -1 ELSE 1
       ELSE IF Len(a) < Len(b) THEN -1 ELSE IF Len(a) > Len(b) THEN 1 ELSE 0

\* EndCompare, lines 115-133
EndCompare(lhs, rhs) ==
    IF Len(lhs) = 0 /\ Len(rhs) = 0 THEN 0
    ELSE IF Len(lhs) = 0 THEN 1
    ELSE IF Len(rhs) = 0 THEN -1
    ELSE bytesCompare(lhs, rhs)

\* StartCompare that takes the empty key as EndCompare does
StartCompareAsEnd(lhs, rhs) == EndCompare(lhs, rhs)

\* StartCompare, lines 95-113
StartCompare(lhs, rhs) ==
    IF Len(lhs) = 0 /\ Len(rhs) = 0 THEN 0
    ELSE IF Len(lhs) = 0 THEN -1
    ELSE IF Len(rhs) = 0 THEN 1
    ELSE bytesCompare(lhs, rhs)

\* GetIntersectSpan, lines 135-161
GetIntersectSpan(lhs, rhs) ==
    IF \/ Len(lhs.StartKey) # 0 /\ EndCompare(lhs.StartKey, rhs.EndKey) >= 0
       \/ Len(rhs.StartKey) # 0 /\ EndCompare(rhs.StartKey, lhs.EndKey) >= 0
    THEN [StartKey |-> <<>>, EndKey |-> <<>>]
    ELSE [StartKey |-> IF StartCompare(rhs.StartKey, lhs.StartKey) > 0
                       THEN rhs.StartKey ELSE lhs.StartKey,
          EndKey |-> IF EndCompare(rhs.EndKey, lhs.EndKey) < 0
                     THEN rhs.EndKey ELSE lhs.EndKey]

\* IsSubSpan, lines 163-175: "panic" when log.Panic is reached
IsSubSpan(sub, parents) ==
    IF bytesCompare(sub.StartKey, sub.EndKey) >= 0
    THEN "panic"
    ELSE IF \E i \in DOMAIN parents :
               /\ StartCompare(parents[i].StartKey, sub.StartKey) <= 0
               /\ EndCompare(sub.EndKey, parents[i].EndKey) <= 0
         THEN "true"
         ELSE "false"

\* IsEmptySpan, lines 177-181
IsEmptySpan(span) == Len(span.StartKey) = 0 /\ Len(span.EndKey) = 0

NoSpan == [StartKey |-> <<>>, EndKey |-> <<>>]

NoSpanCall ==
    [op |-> "none", lhs |-> NoSpan, rhs |-> NoSpan, parents |-> <<>>,
     start |-> 0, end |-> 0, out |-> NoSpan, res |-> "none"]

\* StartCompare of the start keys and EndCompare of the end keys of two spans
CompareKeys(lhs, rhs) ==
    /\ spanCall.op = "none"
    /\ spanCall' = [NoSpanCall EXCEPT !.op = "Compare", !.lhs = lhs, !.rhs = rhs,
                       !.start = StartCompare(lhs.StartKey, rhs.StartKey),
                       !.end = EndCompare(lhs.EndKey, rhs.EndKey)]
    /\ UNCHANGED nonSpanVars

\* a call of GetIntersectSpan
IntersectSpans(lhs, rhs) ==
    /\ spanCall.op = "none"
    /\ spanCall' = [NoSpanCall EXCEPT !.op = "GetIntersectSpan", !.lhs = lhs, !.rhs = rhs,
                       !.out = GetIntersectSpan(lhs, rhs)]
    /\ UNCHANGED nonSpanVars

\* a call of IsSubSpan
CheckSubSpan(sub, parents) ==
    /\ spanCall.op = "none"
    /\ spanCall' = [NoSpanCall EXCEPT !.op = "IsSubSpan", !.lhs = sub, !.parents = parents,
                       !.res = IsSubSpan(sub, parents)]
    /\ UNCHANGED nonSpanVars

(***************************************************************************)
(* InitSignalHandling (cmd/util/util.go).                                  *)
(***************************************************************************)

\* the signals of signal.Notify, lines 109-113
NotifiedSignals == {"SIGHUP", "SIGINT", "SIGTERM", "SIGQUIT"}

\* signalChanLen, line 107
signalChanLen == 2

\* InitSignalHandling, lines 103-115: the channel is made, the goroutine started
InitSignalHandling ==
    /\ sigCh = <<>>
    /\ sigPc = "wait"
    /\ signals = 0
    /\ doneFired = FALSE
    /\ shutdownCalls = 0
    /\ cancelCalls = 0

\* the process is sent a signal: signal.Notify's send does not block, a signal
\* that finds the channel full is dropped
SignalArrives(sig) ==
    /\ signals < MaxSignals
    /\ signals' = signals + 1
    /\ sigCh' = IF Len(sigCh) < signalChanLen THEN Append(sigCh, sig) ELSE sigCh
    /\ UNCHANGED <<sigPc, doneFired, shutdownCalls, cancelCalls, nonSigVars>>

\* line 116: sig := <-sc
ReceiveFirst ==
    /\ sigPc = "wait"
    /\ sigCh # <<>>
    /\ sigCh' = Tail(sigCh)
    /\ sigPc' = "shutdown"
    /\ UNCHANGED <<signals, doneFired, shutdownCalls, cancelCalls, nonSigVars>>

\* line 118: done := shutdown()
CallShutdown ==
    /\ sigPc = "shutdown"
    /\ shutdownCalls' = shutdownCalls + 1
    /\ sigPc' = "select"
    /\ UNCHANGED <<sigCh, signals, doneFired, cancelCalls, nonSigVars>>

\* the shutdown the callback started completes: done receives a value
ShutdownCompletes ==
    /\ shutdownCalls > 0
    /\ ~doneFired
    /\ doneFired' = TRUE
    /\ UNCHANGED <<sigCh, sigPc, signals, shutdownCalls, cancelCalls, nonSigVars>>

\* a select that does not wait
SelectAtOnce(done, ch) == TRUE

\* lines 119-124: the select goes on when done has fired or a signal is in sc
SelectReady(done, ch) == done \/ ch # <<>>

\* lines 119-124: select on done and sc; the second signal is taken from sc
\* when that case is chosen
Select ==
    /\ sigPc = "select"
    /\ SelectReady(doneFired, sigCh)
    /\ sigCh' \in (IF sigCh # <<>> THEN {Tail(sigCh)} ELSE {sigCh})
                      \cup (IF doneFired THEN {sigCh} ELSE {})
    /\ sigPc' = "cancel"
    /\ UNCHANGED <<signals, doneFired, shutdownCalls, cancelCalls, nonSigVars>>

\* line 125: cancel()
CallCancel ==
    /\ sigPc = "cancel"
    /\ cancelCalls' = cancelCalls + 1
    /\ sigPc' = "returned"
    /\ UNCHANGED <<sigCh, signals, doneFired, shutdownCalls, nonSigVars>>

(***************************************************************************)
(* SharedColumnSchemaStorage (table_info_helper.go).                       *)
(***************************************************************************)

SchemaContents == 1..NumSchemaContents
Objects == 1..MaxObjects

\* hashTableInfo, lines 57-118: contents 1 and 2 collide
DigestOf(content) == (content + 1) \div 2

Digests == {DigestOf(content) : content \in SchemaContents}

NoSchemaCall == [op |-> "none", content |-> 0, obj |-> 0]

\* GetSharedColumnSchemaStorage, lines 126-133
NewSharedColumnSchemaStorage ==
    /\ csm = [d \in Digests |-> [present |-> FALSE, list |-> <<>>]]
    /\ objContent = [o \in Objects |-> 0]
    /\ nextObj = 1
    /\ held = [o \in Objects |-> 0]
    /\ csOut = NoSchemaCall

\* a comparison that finds no two schemas the same
sameNever(a, b) == FALSE

\* columnSchema.sameColumnsAndIndices, lines 161-209
sameColumnsAndIndices(a, b) == a = b

\* the first entry of list whose schema has the columns and indices content,
\* 0 when there is none
FindSame(list, content) ==
    LET hits == {i \in DOMAIN list : sameColumnsAndIndices(objContent[list[i].obj], content)}
    IN IF hits = {} THEN 0 ELSE Min(hits)

\* NewColumnSchemaWithCount, lines 140-145
NewColumnSchemaWithCount(obj) == [obj |-> obj, count |-> 1]

\* lines 250-271 and 279-295: the list of the digest after a get-or-set of
\* content, obj being the object at hand, and the object returned
GetOrSet(d, content, obj) ==
    IF ~csm[d].present
    THEN [entry |-> [present |-> TRUE, list |-> <<NewColumnSchemaWithCount(obj)>>], obj |-> obj]
    ELSE LET idx == FindSame(csm[d].list, content)
         IN IF idx # 0
            THEN [entry |-> [csm[d] EXCEPT !.list[idx].count = @ + 1],
                  obj |-> csm[d].list[idx].obj]
            ELSE [entry |-> [csm[d] EXCEPT !.list = Append(@, NewColumnSchemaWithCount(obj))],
                  obj |-> obj]

\* total references held
RECURSIVE HeldFrom(_)
HeldFrom(o) == IF o > MaxObjects THEN 0 ELSE held[o] + HeldFrom(o + 1)

\* SharedColumnSchemaStorage.GetOrSetColumnSchema, lines 246-272; the schema
\* built at line 253 or 268 is a new object
GetOrSetColumnSchema(content) ==
    LET d == DigestOf(content)
        r == GetOrSet(d, content, nextObj)
    IN /\ HeldFrom(1) < MaxRefs
       /\ nextObj <= MaxObjects
       /\ csm' = [csm EXCEPT ![d] = r.entry]
       /\ IF r.obj = nextObj
          THEN /\ objContent' = [objContent EXCEPT ![nextObj] = content]
               /\ nextObj' = nextObj + 1
          ELSE UNCHANGED <<objContent, nextObj>>
       /\ held' = [held EXCEPT ![r.obj] = @ + 1]
       /\ csOut' = [op |-> "GetOrSetColumnSchema", content |-> content, obj |-> r.obj]
       /\ UNCHANGED nonCsVars

\* unmarshalJsonToColumnSchema, lines 406-415, calling
\* getOrSetColumnSchemaByColumnSchema, lines 275-296, with the schema it has
\* decoded; that object is dropped when a stored one is returned
unmarshalJsonToColumnSchema(content) ==
    LET d == DigestOf(content)
        r == GetOrSet(d, content, nextObj)
    IN /\ HeldFrom(1) < MaxRefs
       /\ nextObj <= MaxObjects
       /\ csm' = [csm EXCEPT ![d] = r.entry]
       /\ objContent' = IF r.obj = nextObj
                        THEN [objContent EXCEPT ![nextObj] = content]
                        ELSE objContent
       /\ nextObj' = IF r.obj = nextObj THEN nextObj + 1 ELSE nextObj
       /\ held' = [held EXCEPT ![r.obj] = @ + 1]
       /\ csOut' = [op |-> "unmarshal", content |-> content, obj |-> r.obj]
       /\ UNCHANGED nonCsVars

\* columnSchema.Clone, lines 400-403, calling incColumnSchemaCount, lines
\* 219-236, on an object the caller holds
Clone(obj) ==
    LET d == DigestOf(objContent[obj])
        idx == FindSame(csm[d].list, objContent[obj])
    IN /\ held[obj] > 0
       /\ HeldFrom(1) < MaxRefs
       /\ csm' = IF idx # 0 THEN [csm EXCEPT ![d].list[idx].count = @ + 1] ELSE csm
       /\ held' = [held EXCEPT ![obj] = @ + 1]
       /\ csOut' = [op |-> "Clone", content |-> objContent[obj], obj |-> obj]
       /\ UNCHANGED <<objContent, nextObj, nonCsVars>>

\* tryReleaseColumnSchema, lines 315-328: the loop over colSchemas, the slice
\* read before the loop. arr is its backing array, len the length of the
\* list stored in the map, present whether the key is in the map; "panic" is
\* an index out of range
RECURSIVE ReleaseLoop(_, _, _, _, _)
ReleaseLoop(arr, len, present, idx, obj) ==
    IF idx > Len(arr)
    THEN [entry |-> [present |-> present, list |-> IF present THEN SubSeq(arr, 1, len) ELSE <<>>],
          panic |-> FALSE]
    ELSE IF arr[idx].obj # obj
         THEN ReleaseLoop(arr, len, present, idx + 1, obj)
         ELSE IF idx > len \/ ~present
              THEN [entry |-> [present |-> present, list |-> SubSeq(arr, 1, len)], panic |-> TRUE]
              ELSE IF arr[idx].count - 1 # 0
                   THEN ReleaseLoop([arr EXCEPT ![idx].count = @ - 1], len, present, idx + 1, obj)
                   ELSE ReleaseLoop(SubSeq(arr, 1, idx - 1) \o SubSeq(arr, idx + 1, len)
                                        \o SubSeq(arr, len, Len(arr)),
                                    len - 1, len - 1 # 0, idx + 1, obj)

\* SharedColumnSchemaStorage.tryReleaseColumnSchema, lines 308-329, called
\* when a holder of obj lets it go
tryReleaseColumnSchema(obj) ==
    LET d == DigestOf(objContent[obj])
        r == ReleaseLoop(csm[d].list, Len(csm[d].list), csm[d].present, 1, obj)
    IN /\ held[obj] > 0
       /\ csOut.op # "panic"
       /\ csm' = IF csm[d].present THEN [csm EXCEPT ![d] = r.entry] ELSE csm
       /\ held' = [held EXCEPT ![obj] = @ - 1]
       /\ csOut' = [op |-> IF csm[d].present /\ r.panic THEN "panic" ELSE "tryRelease",
                    content |-> objContent[obj], obj |-> obj]
       /\ UNCHANGED <<objContent, nextObj, nonCsVars>>

(***************************************************************************)
(* One shard of the event store: handleEvents, its committer and the       *)
(* iterator over the shard's DB (part_009).                                *)
(***************************************************************************)

\* common.RawKVEntry as far as the store looks at it: a resolved ts, or a
\* data event with its StartTs and CRTs
RawEntries ==
    [resolved : {TRUE}, CRTs : 1..MaxSendTS, StartTs : {0}]
        \cup {r \in [resolved : {FALSE}, CRTs : 1..MaxSendTS, StartTs : 1..MaxSendTS] :
                r.StartTs <= r.CRTs}

\* EncodeKey: table ID, commit ts, start ts
EncodeKey(tableID, raw) == <<tableID, raw.CRTs, raw.StartTs>>

\* EncodeTsKey
EncodeTsKey(tableID, commitTS, startTS) == <<tableID, commitTS, startTS>>

\* the order of the encoded keys
TsKeyLess(a, b) ==
    \/ a[1] < b[1]
    \/ a[1] = b[1] /\ a[2] < b[2]
    \/ a[1] = b[1] /\ a[2] = b[2] /\ a[3] < b[3]

\* the keys of S in key order
RECURSIVE KeysInOrder(_)
KeysInOrder(S) ==
    IF S = {} THEN <<>>
    ELSE LET k == CHOOSE x \in S : \A y \in S : y = x \/ TsKeyLess(x, y)
         IN <<k>> \o KeysInOrder(S \ {k})

\* db.NewBatch() and spanz.NewHashMap, lines 240-241
NewBatch == [keys |-> {}, size |-> 0, resolved |-> [sp \in StoreSpans |-> 0],
             rid |-> [sp \in StoreSpans |-> 0], n |-> 0]

NoIter == [state |-> "none", keys |-> <<>>, pos |-> 0]

NewShard ==
    /\ inputCh = <<>>
    /\ curBatch = NewBatch
    /\ hePc = "batching"
    /\ batchCh = <<>>
    /\ cb = [pc |-> "recv", batch |-> NewBatch]
    /\ db = {}
    /\ notified = <<>>
    /\ enqLog = <<>>
    /\ formed = 0
    /\ tickerFormed = 0
    /\ commitLog = <<>>
    /\ iter = NoIter
    /\ returned = <<>>

\* eventStore.writeEvent, lines 276-286, sending to the shard's channel
writeEventToShard(span, raw) ==
    /\ ~Panicked
    /\ getTableStat(span) = "found"
    /\ Len(enqLog) < MaxItems
    /\ inputCh' = Append(inputCh, [span |-> span, raw |-> raw, id |-> Len(enqLog) + 1])
    /\ enqLog' = Append(enqLog, [span |-> span, raw |-> raw])
    /\ UNCHANGED <<curBatch, hePc, batchCh, cb, db, notified, formed, tickerFormed, commitLog,
                   iter, returned, nonShardVars>>

\* an encodeItemAndBatch that keeps the resolved ts and leaves the data
\* events out of the batch
encodeResolvedOnly(b, item) ==
    IF item.raw.resolved
    THEN [b EXCEPT !.resolved[item.span] = item.raw.CRTs, !.rid[item.span] = item.id]
    ELSE b

\* encodeItemAndBatch, lines 225-238
encodeItemAndBatch(b, item) ==
    IF item.raw.resolved
    THEN [b EXCEPT !.resolved[item.span] = item.raw.CRTs, !.rid[item.span] = item.id]
    ELSE [b EXCEPT !.keys = @ \cup {EncodeKey(item.span, item.raw)}, !.size = @ + 1]

\* doBatching, lines 245-249: an item is taken from inputCh
BatchItem ==
    /\ hePc = "batching"
    /\ inputCh # <<>>
    /\ LET b == encodeItemAndBatch(curBatch, Head(inputCh))
       IN IF b.size >= batchCommitSize
          THEN /\ curBatch' = [b EXCEPT !.n = formed + 1]
               /\ formed' = formed + 1
               /\ hePc' = "send"
          ELSE /\ curBatch' = b
               /\ UNCHANGED <<formed, hePc>>
    /\ inputCh' = Tail(inputCh)
    /\ UNCHANGED <<batchCh, cb, db, notified, enqLog, tickerFormed, commitLog, iter, returned,
                   nonShardVars>>

\* doBatching, lines 252-255: a tick batchCommitInterval after the start
TickerFires ==
    /\ hePc = "batching"
    /\ tickerFormed < MaxTickerBatches
    /\ curBatch' = [curBatch EXCEPT !.n = formed + 1]
    /\ formed' = formed + 1
    /\ tickerFormed' = tickerFormed + 1
    /\ hePc' = "send"
    /\ UNCHANGED <<inputCh, batchCh, cb, db, notified, enqLog, commitLog, iter, returned,
                   nonShardVars>>

\* handleEvents, lines 268-271: batchCh <- batchEvent
SendBatch ==
    /\ hePc = "send"
    /\ Len(batchCh) < BatchChCap
    /\ batchCh' = Append(batchCh, curBatch)
    /\ curBatch' = NewBatch
    /\ hePc' = "batching"
    /\ UNCHANGED <<inputCh, cb, db, notified, enqLog, formed, tickerFormed, commitLog, iter,
                   returned, nonShardVars>>

\* batchCommitAndUpdateWatermark, lines 185-192: a batch is received and,
\* unless empty, committed
CommitBatch ==
    /\ cb.pc = "recv"
    /\ batchCh # <<>>
    /\ cb' = [pc |-> "notify", batch |-> Head(batchCh)]
    /\ batchCh' = Tail(batchCh)
    /\ db' = IF Head(batchCh).keys # {} THEN db \cup Head(batchCh).keys ELSE db
    /\ commitLog' = Append(commitLog, Head(batchCh).n)
    /\ UNCHANGED <<inputCh, curBatch, hePc, notified, enqLog, formed, tickerFormed, iter, returned,
                   nonShardVars>>

\* the notifier calls of batchResolved.Range from span on, lines 195-204
RECURSIVE NotifyFrom(_, _)
NotifyFrom(b, span) ==
    IF span > NumStoreSpans THEN <<>>
    ELSE (IF b.resolved[span] # 0 /\ getTableStat(span) = "found"
          THEN <<[span |-> span, resolved |-> b.resolved[span], rid |-> b.rid[span]]>>
          ELSE <<>>) \o NotifyFrom(b, span + 1)

\* batchCommitAndUpdateWatermark, lines 194-204: the resolved ts of the
\* batch go to the notifiers
UpdateResolved ==
    /\ cb.pc = "notify"
    /\ ~Panicked
    /\ notified' = notified \o NotifyFrom(cb.batch, 1)
    /\ cb' = [pc |-> "recv", batch |-> NewBatch]
    /\ UNCHANGED <<inputCh, curBatch, hePc, batchCh, db, enqLog, formed, tickerFormed, commitLog,
                   iter, returned, nonShardVars>>

\* eventStore.GetIterator, lines 343-369: the iterator sees the DB as it is
\* now, between the two bounds, and is at its first key
GetIterator(span, startCommitTS, endCommitTS) ==
    /\ ~Panicked
    /\ iter.state = "none"
    /\ IF getTableStat(span) # "found" \/ spans[esTables[span]].watermark > startCommitTS
       THEN iter' = [state |-> "panic", keys |-> <<>>, pos |-> 0]
       ELSE iter' = [state |-> "open",
                     keys |-> KeysInOrder({k \in db :
                                  /\ ~TsKeyLess(k, EncodeTsKey(span, startCommitTS, 0))
                                  /\ TsKeyLess(k, EncodeTsKey(span, endCommitTS, 0))}),
                     pos |-> 1]
    /\ UNCHANGED <<inputCh, curBatch, hePc, batchCh, cb, db, notified, enqLog, formed,
                   tickerFormed, commitLog, returned, nonShardVars>>

\* innerIter.Valid()
Valid(it) == it.pos <= Len(it.keys)

\* eventStoreIter.Next, lines 377-397, called by a caller that loops until
\* it gets a nil event; the value of a key stands for the event stored
\* under it
IterNext ==
    /\ iter.state = "open"
    /\ Len(returned) < MaxNexts
    /\ IF ~Valid(iter)
       THEN /\ iter' = [iter EXCEPT !.state = "nil"]
            /\ UNCHANGED returned
       ELSE /\ returned' = Append(returned, iter.keys[iter.pos])
            /\ UNCHANGED iter
    /\ UNCHANGED <<inputCh, curBatch, hePc, batchCh, cb, db, notified, enqLog, formed,
                   tickerFormed, commitLog, nonShardVars>>

\* the parts after the barrier controller at rest
InitLater ==
    /\ newTxnCache({"waitAvailable"}, {1})
    /\ NewEventDispatcherManager({{}})
    /\ NewEventStore
    /\ spanCall = NoSpanCall
    /\ InitSignalHandling
    /\ NewSharedColumnSchemaStorage
    /\ NewShard

InitSide == NewManager /\ InitCliIdle /\ NewBarrierController({"global"}) /\ InitLater

\* ---- initial states ----

\* everything outside the DispatcherMap of Part 1, before the maintainer starts
InitIdle ==
    /\ alive = {}
    /\ group = [s \in Spans |-> 1]
    /\ reg = [s \in Spans |-> NoSpanRec]
    /\ ops = [s \in Spans |-> NoOp]
    /\ addResult = "none"
    /\ forceBalance = FALSE
    /\ since = 0
    /\ execResult = "none"
    /\ lastMoved = [group |-> 0, global |-> 0]
    /\ moveCount = [s \in Spans |-> 0]
    /\ bootstrapped = {}
    /\ reqQ = [n \in Nodes |-> <<>>]
    /\ msgQ = [n \in Nodes |-> <<>>]
    /\ dsp = [n \in Nodes |-> NoEntries]
    /\ dmSeq = [n \in Nodes |-> 0]
    /\ hbPending = [n \in Nodes |-> NoMsg]
    /\ maintainerID = [n \in Nodes |-> NoMaintainer]
    /\ nodeWM = [n \in Nodes |-> NoWM]
    /\ lastSeq = [n \in Nodes |-> 0]
    /\ published = 0
    /\ pubAtCreate = [s \in Spans |-> 0]
    /\ lowStart = [s \in Spans |-> FALSE]
    /\ reported = [s \in Spans |-> FALSE]
    /\ removals = 0 /\ joins = 0 /\ drops = 0 /\ apiMoves = 0

\* ---- specifications ----

\* the DispatcherMap alone, under concurrent goroutines
DMStep == NextDM /\ UNCHANGED <<regVars, balVars, netVars, wmVars, cntVars, sideVars>>

\* newDispatcherMap, with the maintainer not started
InitMap == InitDM /\ InitIdle /\ InitSide

SpecDM == InitMap /\ [][DMStep]_vars

(***************************************************************************)
(* The balance scheduler on a stable placement: some nodes alive and       *)
(* bootstrapped, some tables, every span Working on an alive node with its *)
(* dispatcher hosted there.  Group ids are interchangeable, so span s      *)
(* takes one of the first s ids.                                           *)
(***************************************************************************)
InitBal ==
    /\ InitDM
    /\ InitSide
    /\ alive \in SUBSET Nodes
    /\ alive # {}
    /\ bootstrapped = alive
    /\ group \in {g \in [Spans -> Groups] : \A s \in Spans : g[s] <= s}
    /\ \E place \in [Spans -> alive \cup {NoNode}] :
         /\ reg = [s \in Spans |-> IF place[s] = NoNode THEN NoSpanRec
                                   ELSE [state |-> "Working", node |-> place[s], ckpt |-> 0]]
         /\ dsp = [n \in Nodes |-> [s \in Spans |-> IF place[s] = n THEN 0 ELSE NoTs]]
         /\ dmSeq = [n \in Nodes |-> Cardinality({s \in Spans : place[s] = n})]
         /\ lastSeq = [n \in Nodes |-> Cardinality({s \in Spans : place[s] = n})]
    /\ ops = [s \in Spans |-> NoOp]
    /\ addResult = "none"
    /\ forceBalance = FALSE
    /\ since = 0
    /\ execResult = "none"
    /\ lastMoved = [group |-> 0, global |-> 0]
    /\ moveCount = [s \in Spans |-> 0]
    /\ reqQ = [n \in Nodes |-> <<>>]
    /\ msgQ = [n \in Nodes |-> <<>>]
    /\ hbPending = [n \in Nodes |-> NoMsg]
    /\ maintainerID = [n \in Nodes |-> IF n \in alive THEN ThisMaintainer ELSE NoMaintainer]
    /\ nodeWM = [n \in Nodes |-> NoWM]
    /\ published = 0
    /\ pubAtCreate = [s \in Spans |-> 0]
    /\ lowStart = [s \in Spans |-> FALSE]
    /\ reported = [s \in Spans |-> FALSE]
    /\ removals = 0 /\ joins = 0 /\ drops = 0 /\ apiMoves = 0

NextBal ==
    \/ BalanceTick
    \/ Tick
    \/ \E s \in Spans : OperatorSchedule(s)
    \/ \E n \in Nodes : WorkerHandle(n)
    \/ \E n \in Nodes : HandleMessage(n)

SpecBal == InitBal /\ [][NextBal]_vars

\* moves the last executed tick emitted
LastMovedTotal == lastMoved.group + lastMoved.global

\* C7: within one balance tick the global phase emits a move only if the
\* group phase emitted none
C7_GlobalOnlyAfterIdleGroup == lastMoved.group > 0 => lastMoved.global = 0

\* a tick whose group phase moved a span
C7_Witness == execResult = "ran" /\ lastMoved.group > 0

\* C8 as stated: the next tick skips the wait exactly when the previous
\* executed tick moved exactly batchSize spans
C8_SkipsWaitOnlyAtExactBatch == forceBalance <=> (LastMovedTotal = BatchSize)

\* C8, amended: the next tick skips the wait exactly when the previous
\* executed tick moved at least batchSize spans; a tick that comes before the
\* interval has elapsed after fewer moves emits nothing
C8_SkipsWaitFromBatch ==
    /\ [](forceBalance <=> (LastMovedTotal >= BatchSize))
    /\ [][BalanceTick =>
            IF forceBalance \/ since >= CheckBalanceInterval
            THEN execResult' # "waited"
            ELSE execResult' = "waited" /\ ops' = ops /\ reg' = reg]_vars

\* the last executed tick moved more than batchSize spans and set forceBalance
C8_Witness == execResult = "ran" /\ forceBalance /\ LastMovedTotal > BatchSize

\* per-node span counts of the Registry differ by at most one
Balanced ==
    LET size == GetTaskSizePerNode
    IN \A a, b \in alive : size[a] - size[b] <= 1

\* the last Execute ran, found nothing to move, and no operator is in flight
Settled == execResult = "ran" /\ LastMovedTotal = 0 /\ OperatorSize(ops) = 0

\* no span was moved more than once by the balance scheduler
MovedOnce == \A s \in Spans : moveCount[s] <= 1

\* all spans of the Registry belong to one group
SingleGroup ==
    \A s, t \in Spans : (reg[s].state # "None" /\ reg[t].state # "None") => group[s] = group[t]

\* C9 as stated: from any stable placement the balance ticks end with
\* per-node counts that differ by at most 1, and move no span twice
C9_BalancesEveryPlacement == MovedOnce /\ (Settled => Balanced)

\* C9, amended: when all spans belong to one group, the balance ticks end
\* with per-node counts that differ by at most 1, and move no span twice
C9_BalancesOneGroup == SingleGroup => (MovedOnce /\ (Settled => Balanced))

\* one group, at least one span moved, and the ticks have settled
C9_Witness ==
    /\ SingleGroup
    /\ Settled
    /\ Cardinality(alive) > 1
    /\ \E s \in Spans : moveCount[s] = 1

(***************************************************************************)
(* The maintainer from its start: the bootstrapper has sent a bootstrap    *)
(* request to every alive node; the nodes in hosts may host dispatchers    *)
(* that an earlier maintainer created.  Tables are added, placed, moved and *)
(* dropped while nodes leave and join.                                     *)
(***************************************************************************)
InitMaintainer(nodes, hosts) ==
    /\ InitDM
    /\ InitSide
    /\ alive = nodes
    /\ group = [s \in Spans |-> 1]
    /\ \E tables \in SUBSET (1..MaxTables) :
         reg = [s \in Spans |-> IF s \in tables
                                THEN [state |-> "Absent", node |-> NoNode, ckpt |-> 0]
                                ELSE NoSpanRec]
    /\ ops = [s \in Spans |-> NoOp]
    /\ addResult = "none"
    /\ forceBalance = FALSE
    /\ since = 0
    /\ execResult = "none"
    /\ lastMoved = [group |-> 0, global |-> 0]
    /\ moveCount = [s \in Spans |-> 0]
    /\ bootstrapped = {}
    /\ reqQ = [n \in Nodes |-> IF n \in alive THEN <<Request("Bootstrap", 0, 0)>> ELSE <<>>]
    /\ msgQ = [n \in Nodes |-> <<>>]
    /\ \E host \in [1..MaxTables -> hosts \cup {NoNode}] :
         /\ dsp = [n \in Nodes |-> [s \in Spans |-> IF s <= MaxTables /\ host[s] = n THEN 0 ELSE NoTs]]
         /\ dmSeq = [n \in Nodes |-> Cardinality({s \in 1..MaxTables : host[s] = n})]
    /\ hbPending = [n \in Nodes |-> NoMsg]
    /\ maintainerID = [n \in Nodes |-> NoMaintainer]
    /\ nodeWM = [n \in Nodes |-> NoWM]
    /\ lastSeq = [n \in Nodes |-> 0]
    /\ published = 0
    /\ pubAtCreate = [s \in Spans |-> 0]
    /\ lowStart = [s \in Spans |-> FALSE]
    /\ reported = [s \in Spans |-> FALSE]
    /\ removals = 0 /\ joins = 0 /\ drops = 0 /\ apiMoves = 0

\* one node is still to join
InitSched == InitMaintainer(Nodes \ {NumNodes}, Nodes \ {NumNodes})

NextSched ==
    \/ \E s \in Spans : AddAbsent(s)
    \/ BasicSchedule
    \/ \E s \in Spans : \E dest \in Nodes : MoveTable(s, dest)
    \/ \E s \in Spans : DropSpan(s)
    \/ \E s \in Spans : OperatorSchedule(s)
    \/ \E n \in Nodes : WorkerHandle(n)
    \/ \E n \in Nodes : HandleMessage(n)
    \/ \E n \in Nodes : RemoveNode(n)
    \/ \E n \in Nodes : NodeJoin(n)

SpecSched == InitSched /\ [][NextSched]_vars

(***************************************************************************)
(* The schedulers on a fixed set of alive nodes: tables are added, the     *)
(* basic scheduler places them, the balance scheduler ticks, and every     *)
(* dispatcher manager answers the requests it receives.                    *)
(***************************************************************************)
InitPlace == \E nodes \in (SUBSET Nodes) \ {{}} : InitMaintainer(nodes, nodes)

NextPlace ==
    \/ \E s \in Spans : AddAbsent(s)
    \/ BasicSchedule
    \/ BalanceTick
    \/ Tick
    \/ \E s \in Spans : OperatorSchedule(s)
    \/ \E n \in Nodes : WorkerHandle(n)
    \/ \E n \in Nodes : HandleMessage(n)

SpecPlace == InitPlace /\ [][NextPlace]_vars

(***************************************************************************)
(* Placement alone, as in TestMaintainerSchedule: no dispatcher exists     *)
(* when the maintainer starts, tables are added and the basic scheduler    *)
(* places them.  The maintainer's event loop and the dispatcher managers   *)
(* do not stop while one of them has a step to take, hence the weak        *)
(* fairness of their steps.                                                *)
(***************************************************************************)
InitAdd == \E nodes \in (SUBSET Nodes) \ {{}} : InitMaintainer(nodes, {})

\* the steps of the maintainer's event loop and of the dispatcher managers
Progress ==
    \/ BasicSchedule
    \/ \E s \in Spans : OperatorSchedule(s)
    \/ \E n \in Nodes : WorkerHandle(n)
    \/ \E n \in Nodes : HandleMessage(n)

NextAdd ==
    \/ \E s \in Spans : AddAbsent(s)
    \/ Progress

SpecAdd == InitAdd /\ [][NextAdd]_vars /\ WF_vars(Progress)

\* the nodes whose dispatcher manager hosts a dispatcher of span s
HostsOf(s) == {n \in Nodes : dsp[n][s] # NoTs}

\* C4: each span has at most one owner, which is an alive node while the
\* span is owned, and at most one node hosts its dispatcher: the owner, when
\* the span is Working
C4_SingleOwner ==
    \A s \in Spans :
        /\ Cardinality(HostsOf(s)) <= 1
        /\ (reg[s].node # NoNode) <=> (reg[s].state \in {"Scheduling", "Working", "Removing"})
        /\ reg[s].node # NoNode => reg[s].node \in alive
        /\ reg[s].state = "Working" => HostsOf(s) \subseteq {reg[s].node}

\* a span is Working on the node that hosts it after a node was lost, a
\* node joined and answered the bootstrap request, and a move was accepted
C4_Witness ==
    /\ removals > 0
    /\ joins > 0
    /\ apiMoves > 0
    /\ alive \subseteq bootstrapped
    /\ \E s \in Spans : reg[s].state = "Working" /\ HostsOf(s) = {reg[s].node}

\* C5: AddOperator for a span that already has an operator returns false and
\* changes neither the operator set nor the Registry
C5_OneOperatorPerSpan ==
    [][\A s \in Spans : \A dest \in Nodes :
          (MoveTable(s, dest) /\ ops[s] # NoOp)
              => (addResult' = "rejected" /\ ops' = ops /\ reg' = reg)]_vars

\* a move was refused for a span whose operator is still in flight
C5_Witness == addResult = "rejected" /\ \E s \in Spans : ops[s] # NoOp

\* C6: no step adds a MoveDispatcher operator while an operator is in flight
\* or a span is Absent
C6_NoMoveWhenUnstable ==
    [][(OperatorSize(ops) > 0 \/ GetAbsentSize > 0)
          => \A s \in Spans : ops'[s].type = "move" => ops[s].type = "move"]_vars

\* Execute was called with an operator in flight and a span Absent
C6_Witness == execResult = "unstable" /\ OperatorSize(ops) > 0 /\ GetAbsentSize > 0

\* spans of the Registry
Added == {s \in Spans : reg[s].state # "None"}

\* C10: once the alive nodes have answered the bootstrap request, every
\* Absent span becomes Working on an alive node; with one alive node and
\* nothing left to place, the Working spans and the spans of that node are
\* the spans added
C10_AbsentBecomesWorking ==
    /\ \A s \in Spans :
          (reg[s].state = "Absent") ~> (reg[s].state = "Working" /\ reg[s].node \in alive)
    /\ [](\A n \in Nodes :
            (alive = {n} /\ GetAbsentSize = 0 /\ OperatorSize(ops) = 0)
                => /\ Cardinality({s \in Spans : reg[s].state = "Working"}) = Cardinality(Added)
                   /\ Cardinality(SpansOn(n)) = Cardinality(Added))

\* one alive node holds every table, the basic scheduler having placed one
C10_Witness ==
    \E n \in Nodes :
        /\ alive = {n}
        /\ addResult = "accepted"
        /\ Cardinality(Added) = MaxTables
        /\ \A s \in Added : reg[s].state = "Working" /\ reg[s].node = n

(***************************************************************************)
(* The watermark path: dispatchers advance, dispatcher managers collect    *)
(* and send heartbeats, the maintainer folds them and publishes the        *)
(* changefeed checkpointTs, while tables are added and a node is lost.     *)
(***************************************************************************)
InitWM == InitMaintainer(Nodes \ {NumNodes}, {})

NextWM ==
    \/ \E s \in Spans : AddAbsent(s)
    \/ BasicSchedule
    \/ \E s \in Spans : OperatorSchedule(s)
    \/ \E n \in Nodes : WorkerHandle(n)
    \/ \E n \in Nodes : \E s \in Spans : Advance(n, s)
    \/ \E n \in Nodes : HBCollect(n)
    \/ \E n \in Nodes : HBSend(n)
    \/ \E n \in Nodes : HandleMessage(n)
    \/ Publish
    \/ \E n \in Nodes : RemoveNode(n)

SpecWM == InitWM /\ [][NextWM]_vars

\* C1: the published checkpointTs never decreases
C1_PublishedMonotone == [][published' >= published]_vars

\* a span was created after the checkpointTs had risen, has reported, a node
\* was lost, and the checkpointTs has risen again
C1_Witness ==
    /\ removals > 0
    /\ \E s \in Spans :
          /\ reg[s].state = "Working"
          /\ reported[s]
          /\ pubAtCreate[s] > 0
          /\ published > pubAtCreate[s]

\* the Working spans
WorkingSpans == {s \in Spans : reg[s].state = "Working"}

\* C2: until the first heartbeat of a span the published checkpointTs does
\* not rise above the value it had when the span was created, and every
\* value published is the minimum checkpoint over the Working spans
C2_AddSpanGuard ==
    /\ [](\A s \in Added : ~reported[s] => published <= pubAtCreate[s])
    /\ [][published' # published => published' = Min({reg[s].ckpt : s \in WorkingSpans})]_vars

\* a span was added below the checkpoint of a Working span, has reported a
\* checkpoint above its startTs, and that checkpoint, the minimum over the
\* Working spans, is published
C2_Witness ==
    \E s, x \in Spans :
        /\ lowStart[s]
        /\ reported[s]
        /\ reg[s].state = "Working"
        /\ reg[x].state = "Working"
        /\ reg[x].ckpt > reg[s].ckpt
        /\ reg[s].ckpt > pubAtCreate[s]
        /\ published = reg[s].ckpt

\* ======================================================================
\* The GC safepoint keeper: calls in any order, with the clock running
\* ======================================================================

InitGC == InitDM /\ InitIdle /\ InitSide

NextGC ==
    \/ \E startTs \in Uint, r \in SetServiceGCSafepoint : EnsureChangefeedStartTsSafety(startTs, r)
    \/ \E checkpointTs \in Uint, forceUpdate \in BOOLEAN, r \in SetServiceGCSafepoint :
          TryUpdateGCSafePoint(checkpointTs, forceUpdate, r)
    \/ \E checkpointTs \in Uint : CheckStaleCheckpointTs(checkpointTs)
    \/ GcClockTick

SpecGC == InitGC /\ [][NextGC]_vars

C15_FailedPushAbsorbedWithinTTL ==
    /\ []((gcOut.op = "TryUpdate" /\ gcOut.pushed /\ gcOut.err) =>
            /\ gcOut.elapsed > GcTTL => gcOut.ret = "ErrUpdateServiceSafepointFailed"
            /\ gcOut.elapsed < GcTTL => gcOut.ret = "nil")
    /\ [][(gcOut'.op = "TryUpdate" /\ gcOut'.pushed /\ gcOut'.err) =>
            /\ gcm'.lastSafePointTs = gcm.lastSafePointTs
            /\ gcm'.isTiCDCBlockGC = gcm.isTiCDCBlockGC
            /\ gcm'.lastSucceededTime = gcm.lastSucceededTime]_vars

C15_Witness ==
    /\ gcOut.op = "TryUpdate" /\ gcOut.pushed /\ gcOut.err
    /\ gcSucceeded /\ gcm.lastSucceededTime > 0
    /\ gcOut.elapsed > GcTTL
    /\ gcOut.ret = "ErrUpdateServiceSafepointFailed"

\* C16 as stated: after a successful push that recorded a minimum service
\* safepoint M other than the pushed checkpoint, CheckStaleCheckpointTs(ts)
\* returns ErrSnapshotLostByGC exactly when ts < M + 1, for every ts
C16_StaleExactlyBelowMin ==
    (gcOut.op = "CheckStale" /\ gcSucceeded /\ ~gcm.isTiCDCBlockGC) =>
        IF gcOut.ts < gcm.lastSafePointTs + 1
        THEN gcOut.ret = "ErrSnapshotLostByGC"
        ELSE gcOut.ret = "nil"

\* the input on which C16 fails: checkpointTs = 0 is reported as not stale
C16_Witness ==
    /\ gcOut.op = "CheckStale" /\ gcSucceeded /\ ~gcm.isTiCDCBlockGC
    /\ gcOut.ts = 0 /\ gcm.lastSafePointTs > 0
    /\ gcOut.ret = "nil"

\* ======================================================================
\* The resume command: one command per behaviour, every flag value and
\* every answer of the API server
\* ======================================================================

InitResume == InitDM /\ InitIdle /\ NewManager /\ InitCli /\ NewBarrierController({"global"}) /\ InitLater

NextResume ==
    \/ ValidateParams
    \/ \E confirmed \in BOOLEAN, resumeErr \in BOOLEAN : Run(confirmed, resumeErr)

SpecResume == InitResume /\ [][NextResume]_vars

\* the flag value as a decimal number, without a width
RECURSIVE DecimalValue(_, _)
DecimalValue(s, n) == IF n = 0 THEN 0 ELSE DecimalValue(s, n - 1) * 10 + DigitVal(s[n])

FlagValue == DecimalValue(cliOpts.overwriteCheckpointTs, Len(cliOpts.overwriteCheckpointTs))
FlagIsNumeric == cliOpts.overwriteCheckpointTs \in Numerals
CurrentTso == cliEnv.tso.Timestamp * LogicalRange + cliEnv.tso.LogicTime
\* validateParams has come to the flag: both queries succeeded, the flag is set
FlagValidated ==
    /\ cliPc = "validated"
    /\ ~cliEnv.infoErr /\ ~cliEnv.tsoErr
    /\ Len(cliOpts.overwriteCheckpointTs) > 0
\* run returned a validation error of the flag
FlagRefused == cliPc = "ran" /\ cliRet \in {"ErrCliInvalidCheckpointTs", "ErrCliCheckpointTsIsInFuture"}

\* C17 as stated: the flag is accepted only when it is 'now' (resolved to the
\* current TSO) or a non-zero decimal value not above the current TSO; a
\* non-numeric or zero value yields ErrCliInvalidCheckpointTs, a value above
\* the current TSO yields ErrCliCheckpointTsIsInFuture, and on either error
\* the checkpoint stays unset and no resume request is sent
C17_OverwriteCheckpointTsValidated ==
    /\ FlagValidated =>
          LET isNow == cliOpts.overwriteCheckpointTs = <<"n", "o", "w">>
          IN /\ cliRet = "nil" <=> (isNow \/ (FlagIsNumeric /\ FlagValue # 0 /\ FlagValue <= CurrentTso))
             /\ isNow => cliOpts.checkpointTs = CurrentTso
             /\ (cliRet = "nil" /\ FlagIsNumeric) => cliOpts.checkpointTs = FlagValue
             /\ (~isNow /\ ~FlagIsNumeric) => cliRet = "ErrCliInvalidCheckpointTs"
             /\ (FlagIsNumeric /\ FlagValue = 0) => cliRet = "ErrCliInvalidCheckpointTs"
             /\ (FlagIsNumeric /\ FlagValue > CurrentTso) => cliRet = "ErrCliCheckpointTsIsInFuture"
             /\ cliRet # "nil" => cliOpts.checkpointTs = 0
    /\ FlagRefused => (cliOpts.checkpointTs = 0 /\ cliRequest = NoRequest)

\* C17, amended: the flag is accepted only when it is 'now' in any letter case
\* (resolved to the current TSO) or a decimal value that fits the unsigned
\* width, is non-zero and is not above the current TSO; a value that is not a
\* decimal number, does not fit the width, or is zero yields
\* ErrCliInvalidCheckpointTs, a value of the width above the current TSO
\* yields ErrCliCheckpointTsIsInFuture, and on either error the checkpoint
\* stays unset and no resume request is sent
C17_OverwriteCheckpointTsParsed ==
    /\ FlagValidated =>
          LET isNow == cliOpts.overwriteCheckpointTs \in
                          {<<a, b, c>> : a \in {"n", "N"}, b \in {"o", "O"}, c \in {"w", "W"}}
              fits == FlagIsNumeric /\ FlagValue <= MaxUint
          IN /\ cliRet = "nil" <=> (isNow \/ (fits /\ FlagValue # 0 /\ FlagValue <= CurrentTso))
             /\ isNow => cliOpts.checkpointTs = CurrentTso
             /\ (cliRet = "nil" /\ FlagIsNumeric) => cliOpts.checkpointTs = FlagValue
             /\ (~isNow /\ ~fits) => cliRet = "ErrCliInvalidCheckpointTs"
             /\ (fits /\ FlagValue = 0) => cliRet = "ErrCliInvalidCheckpointTs"
             /\ (fits /\ FlagValue > CurrentTso) => cliRet = "ErrCliCheckpointTsIsInFuture"
             /\ cliRet # "nil" => cliOpts.checkpointTs = 0
    /\ FlagRefused => (cliOpts.checkpointTs = 0 /\ cliRequest = NoRequest)

C17_Witness ==
    /\ FlagRefused
    /\ cliRet = "ErrCliCheckpointTsIsInFuture"
    /\ FlagIsNumeric /\ FlagValue <= MaxUint /\ FlagValue > CurrentTso /\ CurrentTso > 0

Inventories(n) == {msgQ[n][i].ents : i \in {j \in 1..Len(msgQ[n]) : msgQ[n][j].kind = "Bootstrap"}}
ReportedSpans(ents) == {x \in Spans : ents[x] # NoTs}

\* C19: reconciling an inventory a second time, against the operators and
\* the Registry the first reconciliation left, issues no operator and leaves
\* the Registry as it is
C19_ReconcileIdempotent ==
    \A n \in Nodes : \A ents \in Inventories(n) :
        LET once == Reconcile(n, ents, ReportedSpans(ents), ops, reg)
            twice == Reconcile(n, ents, ReportedSpans(ents), once.ops, once.reg)
        IN twice = once

\* a response whose reconciliation adopts a span and removes another
C19_Witness ==
    \E n \in Nodes : \E ents \in Inventories(n) :
        LET once == Reconcile(n, ents, ReportedSpans(ents), ops, reg)
        IN /\ \E s \in Spans : reg[s].state = "Absent" /\ once.reg[s].state = "Working"
           /\ \E s \in Spans : ops[s] = NoOp /\ once.ops[s].type = "remove"

\* ======================================================================
\* A move and the move back: span 1 is Working on node 1 (A); it is moved
\* to another node (B) and, once that move is complete, back to node 1,
\* while dispatchers advance and heartbeats flow
\* ======================================================================

\* the first MaxTables spans are Working, span 1 on node 1
InitMove ==
    /\ InitBal
    /\ alive = Nodes \ {NumNodes}
    /\ reg[1].node = 1
    /\ \A s \in Spans : reg[s].state = "Working" <=> s <= MaxTables
    /\ group = [s \in Spans |-> 1]

MoveThere == apiMoves = 0 /\ \E dest \in Nodes : MoveTable(1, dest)

MoveBack ==
    /\ apiMoves = 1
    /\ ops[1] = NoOp
    /\ reg[1].state = "Working"
    /\ reg[1].node # 1
    /\ MoveTable(1, 1)

\* a dispatcher manager collects its next heartbeat once the maintainer has
\* taken its earlier messages
NextMove ==
    \/ MoveThere
    \/ MoveBack
    \/ \E s \in Spans : OperatorSchedule(s)
    \/ \E n \in Nodes : WorkerHandle(n)
    \/ \E n \in Nodes : HandleMessage(n)
    \/ \E n \in Nodes, s \in Spans : Advance(n, s)
    \/ \E n \in Nodes : msgQ[n] = <<>> /\ HBCollect(n)
    \/ \E n \in Nodes : HBSend(n)

SpecMove == InitMove /\ [][NextMove]_vars

\* both moves are complete
MovedThereAndBack == apiMoves = 2 /\ ops[1] = NoOp

\* C20: after the completed move A -> B and the completed move B -> A the
\* span is Working on A again and hosted by A alone, no other span has
\* changed its owner or state on the way, and no watermark has moved back
C20_MoveThereAndBack ==
    /\ [](MovedThereAndBack =>
            /\ reg[1].state = "Working" /\ reg[1].node = 1
            /\ \A n \in Nodes : dsp[n][1] # NoTs <=> n = 1)
    /\ [][\A s \in Spans :
            /\ s # 1 => (reg'[s].state = reg[s].state /\ reg'[s].node = reg[s].node)
            /\ reg'[s].ckpt >= reg[s].ckpt]_vars

C20_Witness ==
    /\ MovedThereAndBack
    /\ reg[1].state = "Working" /\ reg[1].node = 1
    /\ reg[1].ckpt > 0
    /\ \E s \in Spans : s # 1 /\ reg[s].state = "Working" /\ reg[s].ckpt > 0

(***************************************************************************)
(* Node failures: every node is alive when the maintainer starts; tables   *)
(* are added and dropped and nodes are lost while the maintainer's event   *)
(* loop and the dispatcher managers keep taking their steps.  The losses   *)
(* are bounded, so every behaviour ends with a period without membership   *)
(* change.                                                                 *)
(***************************************************************************)
InitFail == InitMaintainer(Nodes, {1})

NextFail ==
    \/ \E s \in Spans : AddAbsent(s)
    \/ \E s \in Spans : DropSpan(s)
    \/ \E n \in Nodes : RemoveNode(n)
    \/ Progress

SpecFail == InitFail /\ [][NextFail]_vars /\ WF_vars(Progress)

\* C11: after the node failures, with a node alive and the event loop and
\* the dispatcher managers taking their steps, every span that is not
\* dropped is in the end Working on an alive node, and stays so
C11_WorkingAfterFailures ==
    <>[](\A s \in Spans :
            reg[s].state # "None" => (reg[s].state = "Working" /\ reg[s].node \in alive))

\* a node is lost and every table is Working on a node that is left, one of
\* them on the node the basic scheduler takes last
C11_Witness ==
    /\ removals = MaxRemovals
    /\ Cardinality(alive) = NumNodes - MaxRemovals
    /\ \A s \in 1..MaxTables : reg[s].state = "Working" /\ reg[s].node \in alive
    /\ \E s \in Spans : reg[s].node = NumNodes

(***************************************************************************)
(* The barrier protocol: one blocking event at BarrierTs, of single-table  *)
(* or global scope, with every span Working.  Dispatchers, heartbeats, the *)
(* maintainer and the table-trigger dispatcher keep taking their steps;    *)
(* dispatchers are lost while the barrier is open.                         *)
(***************************************************************************)
InitBarrier ==
    /\ InitDM
    /\ InitIdle
    /\ NewManager
    /\ InitCliIdle
    /\ NewBarrierController({"singleTable", "global"})
    /\ InitLater

BarrierProgress ==
    \/ \E s \in Spans : DispatcherAdvance(s)
    \/ \E s \in Spans : BarrierHeartbeat(s)
    \/ PrepareBarrier
    \/ WriteDDL
    \/ ReleaseBarrier
    \/ AggregatorTick
    \/ \E s \in Spans : Reschedule(s)

NextBarrier ==
    \/ BarrierProgress
    \/ \E s \in Spans : LoseDispatcher(s)

SpecBarrier == InitBarrier /\ [][NextBarrier]_vars /\ WF_vars(BarrierProgress)

\* C12: while the barrier at BarrierTs is not Done the published
\* checkpointTs does not exceed BarrierTs - 1
C12_CheckpointClampedByBarrier ==
    barrier.state # "Done" => changefeedCkpt <= BarrierTs - 1

\* the barrier is open, the span of the event has lost its dispatcher, the
\* watermark of another span is past BarrierTs and checkpointTs is BarrierTs - 1
C12_Witness ==
    /\ barrier.state = "Acking"
    /\ \E s \in barrier.spans : bdCkpt[s] = NoTs
    /\ \E s \in Spans : bdCkpt[s] # NoTs /\ barWM[s] > BarrierTs
    /\ changefeedCkpt = BarrierTs - 1

\* ReleaseBarrier has been broadcast
Released == \E s \in Spans : barMsg[s] = "Release"

\* C13: ReleaseBarrier is broadcast only when the dispatcher of every
\* affected span has acked and the DDL is written; once it is broadcast the
\* barrier becomes Done and checkpointTs advances past BarrierTs
C13_ReleaseAfterAcksThenAdvance ==
    /\ [][(~Released /\ Released') =>
            /\ \A s \in barrier.spans : bdAcked[s] /\ bdCkpt[s] = BarrierTs - 1
            /\ ddl = "written"]_vars
    /\ Released ~> (barrier.state = "Done" /\ changefeedCkpt > BarrierTs)

\* the barrier is Done after a dispatcher was lost and checkpointTs is past
\* BarrierTs
C13_Witness ==
    /\ barrier.state = "Done"
    /\ barLosses = MaxBarLosses
    /\ changefeedCkpt > BarrierTs

\* the node an operator's request goes to: the destination of an add and
\* of a move whose origin has stopped, else the origin
OperatorTarget(op) == IF op.type = "add" \/ op.phase = "creating" THEN op.dest ELSE op.origin

EntrySpans(msg) ==
    IF msg.kind = "Heartbeat" THEN {s \in Spans : msg.ents[s] # NoTs}
    ELSE IF msg.kind = "Working" THEN {msg.span}
    ELSE {}

InitTxnCache ==
    /\ InitDM
    /\ InitIdle
    /\ NewManager
    /\ InitCliIdle
    /\ NewBarrierController({"global"})
    /\ newTxnCache({"waitAvailable", "waitEmpty"}, 1..MaxCacheSize)
    /\ NewEventDispatcherManager({{}})
    /\ NewEventStore
    /\ spanCall = NoSpanCall
    /\ InitSignalHandling
    /\ NewSharedColumnSchemaStorage
    /\ NewShard

NextTxnCache ==
    \/ boundedTxnCacheAdd
    \/ boundedTxnCacheWithBlockAdd
    \/ TxnCacheConsume

SpecTxnCache == InitTxnCache /\ [][NextTxnCache]_vars

\* C23: the cache never holds more than Size txns, and an add issued when
\* the cache holds Size txns returns false
C23_CacheHoldsAtMostSize ==
    /\ txnCache.len <= txnCache.upperSize
    /\ (addOut.ret = "true" /\ txnCache.BlockStrategy = "waitAvailable")
          => addOut.len < txnCache.upperSize

\* the input on which C23 fails: the cache holds Size + 1 txns after an add
\* that was accepted with Size txns in the cache
C23_Witness ==
    /\ txnCache.BlockStrategy = "waitAvailable"
    /\ addOut.ret = "true"
    /\ addOut.len = txnCache.upperSize
    /\ txnCache.len = txnCache.upperSize + 1

\* C24: with the waitEmpty strategy an add that follows a rejected add and
\* finds txns in the cache is rejected, and an add that finds the cache
\* emptied by the consumer is accepted
C24_WaitEmptyRejectsUntilDrained ==
    (txnCache.BlockStrategy = "waitEmpty" /\ addOut.wait # "open") =>
        IF addOut.seen > 0 THEN addOut.ret = "false" ELSE addOut.ret = "true"

\* an add is rejected, the next add finds txns left and is rejected, the
\* consumer empties the cache and the add after that is accepted
C24_Witness ==
    /\ txnCache.BlockStrategy = "waitEmpty"
    /\ addOut = [ret |-> "true", len |-> 0, seen |-> 0, wait |-> "emptied"]
    /\ txnCache.len = 1

\* C25: in a stable state every outcome of the global phase consists of moves
\* from a node above floor to a node below floor that holds no span of the
\* group, a victim and a receiver are used at most once per group, no victim
\* ends below floor and no receiver above it, and with every node at floor
\* nothing is moved
C25_GlobalPhaseMoves ==
    Stable(ops) =>
      \A r \in schedulerGlobal(ops) :
        LET cnt == [n \in alive |-> Cardinality({g \in GetGroups : NodeTasks(g, n) # {}})]
            total == Cardinality({gn \in GetGroups \X alive : NodeTasks(gn[1], gn[2]) # {}})
            floor == total \div Cardinality(alive)
            moved == {s \in Spans : r.ops[s] # NoOp}
            given(n) == Cardinality({s \in moved : r.ops[s].origin = n})
            taken(n) == Cardinality({s \in moved : r.ops[s].dest = n})
        IN /\ r.moved = Cardinality(moved)
           /\ \A s \in moved :
                 /\ r.ops[s] = NewMoveDispatcherOperator(reg[s].node, r.ops[s].dest)
                 /\ r.ops[s].dest \in alive
                 /\ cnt[reg[s].node] > floor
                 /\ cnt[r.ops[s].dest] < floor
                 /\ NodeTasks(group[s], r.ops[s].dest) = {}
           /\ \A s, x \in moved :
                 (s # x /\ group[s] = group[x])
                     => (r.ops[s].origin # r.ops[x].origin /\ r.ops[s].dest # r.ops[x].dest)
           /\ \A n \in alive :
                 /\ given(n) > 0 => (taken(n) = 0 /\ cnt[n] - given(n) >= floor)
                 /\ taken(n) > 0 => cnt[n] + taken(n) <= floor
           /\ (\A n \in alive : cnt[n] = floor) => moved = {}

\* an Execute whose global phase has moved spans of two groups to two nodes
C25_Witness ==
    /\ execResult = "ran"
    /\ lastMoved.global > 0
    /\ \E s, x \in Spans :
          /\ ops[s].type = "move" /\ ops[x].type = "move"
          /\ group[s] # group[x]
          /\ ops[s].dest # ops[x].dest

InitEarly ==
    /\ InitDM
    /\ InitIdle
    /\ NewManager
    /\ InitCliIdle
    /\ NewBarrierController({"global"})

\* a dispatcher manager holding any dispatchers
InitHeartBeat ==
    /\ InitEarly
    /\ newTxnCache({"waitAvailable"}, {1})
    /\ NewEventDispatcherManager(SUBSET DispatcherIDs)
    /\ NewEventStore
    /\ spanCall = NoSpanCall
    /\ InitSignalHandling
    /\ NewSharedColumnSchemaStorage
    /\ NewShard

NextHeartBeat == HeartBeatResponseHandle

SpecHeartBeat == InitHeartBeat /\ [][NextHeartBeat]_vars

\* C27: a handled heartbeat response pushes each of its statuses to the
\* listed dispatchers (Normal), to the dispatchers of the schema but the
\* excluded one (DB), to the dispatchers of the map but the excluded one
\* (All), and to no other dispatcher
C27_StatusReachesInfluenced ==
    [][hbOut' # hbOut =>
         \A i \in DOMAIN hbOut'.resp : \A d \in DispatcherIDs :
            LET st == hbOut'.resp[i]
            IN <<i, d>> \in hbOut'.pushes <=>
                 \/ st.InfluenceType = "Normal" /\ d \in st.DispatcherIDs
                 \/ /\ st.InfluenceType = "DB"
                    /\ d \in edm.schemaIDToDispatchers[st.SchemaID]
                    /\ d # st.ExcludeDispatcherId
                 \/ /\ st.InfluenceType = "All"
                    /\ d \in edm.dispatcherMap
                    /\ d # st.ExcludeDispatcherId]_vars

\* a response with a DB and an All status, each excluding a dispatcher it
\* would otherwise reach, has been handled
C27_Witness ==
    /\ Len(hbOut.resp) = 2
    /\ hbOut.resp[1].InfluenceType = "DB"
    /\ hbOut.resp[2].InfluenceType = "All"
    /\ hbOut.resp[1].ExcludeDispatcherId \in edm.schemaIDToDispatchers[hbOut.resp[1].SchemaID]
    /\ hbOut.resp[2].ExcludeDispatcherId \in edm.dispatcherMap
    /\ \E d, x \in DispatcherIDs : <<1, d>> \in hbOut.pushes /\ <<2, x>> \in hbOut.pushes

InitSchedule ==
    /\ InitEarly
    /\ newTxnCache({"waitAvailable"}, {1})
    /\ NewEventDispatcherManager({{}})
    /\ NewEventStore
    /\ spanCall = NoSpanCall
    /\ InitSignalHandling
    /\ NewSharedColumnSchemaStorage
    /\ NewShard

NextSchedule ==
    \/ PushSchedule
    \/ SchedulerDispatcherRequestHandle

SpecSchedule == InitSchedule /\ [][NextSchedule]_vars

\* C28: the dispatcher manager is as if every handled request had been
\* handled alone in arrival order, a batch with a Remove request holds
\* nothing else, and a dispatcher whose last handled request is a Remove
\* is absent
C28_RequestsTakeEffectInOrder ==
    /\ edm = HandledInOrder(ManagerOf({}), schedOut.handled, 1)
    /\ (\E i \in DOMAIN schedOut.batch : schedOut.batch[i].ScheduleAction = "Remove")
          => Len(schedOut.batch) = 1
    /\ \A i \in DOMAIN schedOut.handled :
          LET d == schedOut.handled[i].DispatcherID
          IN (/\ schedOut.handled[i].ScheduleAction = "Remove"
              /\ \A j \in DOMAIN schedOut.handled :
                    j > i => schedOut.handled[j].DispatcherID # d)
                 => d \notin edm.dispatcherMap

\* two Create requests handled in one batch, then the Remove of one of them
C28_Witness ==
    /\ schedQ = <<>>
    /\ Len(schedOut.handled) = 3
    /\ schedOut.handled[1].ScheduleAction = "Create"
    /\ schedOut.handled[2].ScheduleAction = "Create"
    /\ schedOut.handled[3].ScheduleAction = "Remove"
    /\ schedOut.handled[3].DispatcherID = schedOut.handled[1].DispatcherID
    /\ schedOut.handled[2].DispatcherID # schedOut.handled[1].DispatcherID
    /\ edm.dispatcherMap = {schedOut.handled[2].DispatcherID}

\* ---- the event store ----

InitEventStore ==
    /\ InitEarly
    /\ newTxnCache({"waitAvailable"}, {1})
    /\ NewEventDispatcherManager({{}})
    /\ NewEventStore
    /\ spanCall = NoSpanCall
    /\ InitSignalHandling
    /\ NewSharedColumnSchemaStorage
    /\ NewShard

NextEventStore ==
    \/ \E d \in StoreDispatchers, sp \in StoreSpans, ts \in 0..MaxSendTS :
          RegisterDispatcher(d, sp, ts)
    \/ \E d \in StoreDispatchers, ts \in 0..MaxSendTS : UpdateDispatcherSendTS(d, ts)
    \/ \E d \in StoreDispatchers : UnregisterDispatcher(d)
    \/ \E sp \in StoreSpans : writeEvent(sp)

SpecEventStore == InitEventStore /\ [][NextEventStore]_vars

C30_IndexMatchesTableStates ==
    /\ \A sp \in StoreSpans :
          esTables[sp] # NoDispatcher => spans[esTables[sp]] # NoTableState
    /\ \A d \in StoreDispatchers :
          spans[d] # NoTableState => esTables[spans[d].span] # NoDispatcher
    /\ ~(esCall.op = "writeEvent" /\ esCall.ret = "panic")

\* the input on which C30 fails: writeEvent panics for the span of a
\* registered dispatcher after another dispatcher of that span was
\* unregistered
C30_Witness ==
    /\ esCall.op = "writeEvent"
    /\ esCall.ret = "panic"
    /\ esTables[esCall.span] = NoDispatcher
    /\ \E d \in StoreDispatchers : spans[d] # NoTableState /\ spans[d].span = esCall.span
    /\ registers = 2

\* ---- the GC safepoint keeper, continued ----

\* C37: a TryUpdateGCSafePoint(C) whose push succeeded with minimum A leaves
\* lastSafePointTs = A and isTiCDCBlockGC = (A = C) and returns nil, also
\* when A > C; a skipped or failed push leaves both fields as they were
C37_SuccessfulPushRecordsMinimum ==
    [][(gcOut'.op = "TryUpdate" /\ gcNow' = gcNow /\ (gcOut' # gcOut \/ gcm' # gcm)) =>
          IF gcOut'.pushed /\ ~gcOut'.err
          THEN /\ gcm'.lastSafePointTs = gcOut'.actual
               /\ gcm'.isTiCDCBlockGC = (gcOut'.actual = gcOut'.ts)
               /\ gcOut'.ret = "nil"
          ELSE /\ gcm'.lastSafePointTs = gcm.lastSafePointTs
               /\ gcm'.isTiCDCBlockGC = gcm.isTiCDCBlockGC]_vars

\* a successful push, later than the manager's creation, that returned a
\* minimum above the checkpoint
C37_Witness ==
    /\ gcOut.op = "TryUpdate"
    /\ gcOut.pushed /\ ~gcOut.err
    /\ gcOut.actual > gcOut.ts
    /\ gcOut.ret = "nil"
    /\ gcm.lastSafePointTs = gcOut.actual
    /\ ~gcm.isTiCDCBlockGC
    /\ gcNow > 0

\* C38: TryUpdateGCSafePoint pushes exactly when forceUpdate is set or
\* gcSafepointUpdateInterval has passed since lastUpdatedTime; a call that
\* does not push returns nil and leaves the manager as it was; a call that
\* pushes stores the current time as lastUpdatedTime whether the push
\* succeeds or fails
C38_PushOnlyWhenDueOrForced ==
    [][(gcOut'.op = "TryUpdate" /\ gcNow' = gcNow /\ (gcOut' # gcOut \/ gcm' # gcm)) =>
          /\ gcOut'.pushed <=>
                (gcOut'.force \/ gcNow - gcm.lastUpdatedTime >= GcSafepointUpdateInterval)
          /\ ~gcOut'.pushed => (gcOut'.ret = "nil" /\ gcm' = gcm /\ gcSucceeded' = gcSucceeded)
          /\ gcOut'.pushed => gcm'.lastUpdatedTime = gcNow]_vars

\* an unforced call right after a failed push at the same time: not pushed
C38_Witness ==
    /\ gcOut.op = "TryUpdate"
    /\ ~gcOut.pushed
    /\ ~gcOut.force
    /\ gcm.lastUpdatedTime = gcNow
    /\ gcm.lastSucceededTime < gcNow
    /\ gcm.lastSafePointTs = 0
    /\ ~gcSucceeded

\* ---- span operations ----

InitSpanOps ==
    /\ InitEarly
    /\ newTxnCache({"waitAvailable"}, {1})
    /\ NewEventDispatcherManager({{}})
    /\ NewEventStore
    /\ spanCall = NoSpanCall
    /\ InitSignalHandling
    /\ NewSharedColumnSchemaStorage
    /\ NewShard

\* one call, on any arguments
NextSpanOps ==
    \/ /\ spanCall.op = "none"
       /\ \E lhs, rhs \in TableSpans : CompareKeys(lhs, rhs)
    \/ /\ spanCall.op = "none"
       /\ \E lhs, rhs \in NonEmptySpans : IntersectSpans(lhs, rhs)
    \/ /\ spanCall.op = "none"
       /\ \E sub \in NonEmptySpans :
             \E parents \in UNION {[1..n -> NonEmptySpans] : n \in 0..MaxParents} :
                 CheckSubSpan(sub, parents)

SpecSpanOps == InitSpanOps /\ [][NextSpanOps]_vars

\* C34: StartCompare orders start keys in byte order with the empty key
\* first, EndCompare orders end keys in byte order with the empty key last,
\* each is the negation of itself with the arguments exchanged;
\* GetIntersectSpan gives the same span with its arguments exchanged, and
\* for overlapping spans a span that holds the keys of both and no other
C34_CompareAndIntersect ==
    /\ spanCall.op = "Compare" =>
          LET a == spanCall.lhs.StartKey
              b == spanCall.rhs.StartKey
              x == spanCall.lhs.EndKey
              y == spanCall.rhs.EndKey
          IN /\ spanCall.start \in {-1, 0, 1}
             /\ spanCall.end \in {-1, 0, 1}
             /\ spanCall.start = 0 <=> a = b
             /\ spanCall.start = -1 <=> (a # b /\ (a = <<>> \/ (b # <<>> /\ KeyLess(a, b))))
             /\ spanCall.end = 0 <=> x = y
             /\ spanCall.end = -1 <=> (x # y /\ (y = <<>> \/ (x # <<>> /\ KeyLess(x, y))))
             /\ spanCall.start = -StartCompare(b, a)
             /\ spanCall.end = -EndCompare(y, x)
    /\ spanCall.op = "GetIntersectSpan" =>
          /\ spanCall.out = GetIntersectSpan(spanCall.rhs, spanCall.lhs)
          /\ Covers(spanCall.lhs) \cap Covers(spanCall.rhs) # {}
                => Covers(spanCall.out) = Covers(spanCall.lhs) \cap Covers(spanCall.rhs)

\* two overlapping spans neither of which holds the other have been
\* intersected
C34_Witness ==
    /\ spanCall.op = "GetIntersectSpan"
    /\ Covers(spanCall.lhs) \cap Covers(spanCall.rhs) # {}
    /\ spanCall.out # spanCall.lhs
    /\ spanCall.out # spanCall.rhs
    /\ spanCall.lhs.StartKey = <<>>
    /\ spanCall.rhs.EndKey = <<>>

\* C35 as stated: IsSubSpan returns true exactly when a parent holds every
\* key of sub, and does not panic on a span that holds a key
C35_SubSpanIffCovered ==
    spanCall.op = "IsSubSpan" =>
        /\ spanCall.res # "panic"
        /\ spanCall.res = "true" <=>
              \E i \in DOMAIN spanCall.parents :
                  Covers(spanCall.lhs) \subseteq Covers(spanCall.parents[i])

\* the input on which C35 fails: IsSubSpan(s, s) panics for a span s with a
\* start key and no end key
C35_Witness ==
    /\ spanCall.op = "IsSubSpan"
    /\ spanCall.lhs.StartKey # <<>>
    /\ spanCall.lhs.EndKey = <<>>
    /\ spanCall.parents = <<spanCall.lhs>>
    /\ spanCall.res = "panic"

\* C36 as stated: IsEmptySpan holds of GetIntersectSpan's result exactly when
\* the two spans have no key in common
C36_EmptyIffDisjoint ==
    spanCall.op = "GetIntersectSpan" =>
        (IsEmptySpan(spanCall.out) <=> Covers(spanCall.lhs) \cap Covers(spanCall.rhs) = {})

\* the input on which C36 fails: the intersection of two spans without
\* start and end key is reported empty
C36_Witness ==
    /\ spanCall.op = "GetIntersectSpan"
    /\ spanCall.lhs = NoSpan
    /\ spanCall.rhs = NoSpan
    /\ Covers(spanCall.lhs) \cap Covers(spanCall.rhs) # {}
    /\ IsEmptySpan(spanCall.out)

\* ---- signal handling ----

InitSignals ==
    /\ InitEarly
    /\ newTxnCache({"waitAvailable"}, {1})
    /\ NewEventDispatcherManager({{}})
    /\ NewEventStore
    /\ spanCall = NoSpanCall
    /\ InitSignalHandling
    /\ NewSharedColumnSchemaStorage
    /\ NewShard

\* the steps of the goroutine
SignalGoroutine == ReceiveFirst \/ CallShutdown \/ Select \/ CallCancel

NextSignals ==
    \/ \E sig \in NotifiedSignals : SignalArrives(sig)
    \/ ShutdownCompletes
    \/ SignalGoroutine

\* the goroutine is scheduled
SpecSignals == InitSignals /\ [][NextSignals]_vars /\ WF_vars(SignalGoroutine)

\* C39: shutdown and cancel are each called at most once and not before a
\* signal; shutdown is called once a signal has arrived; cancel is called
\* only after shutdown has been called and then done has fired or a second
\* signal has arrived
C39_ShutdownThenCancel ==
    /\ [](/\ shutdownCalls <= 1
          /\ cancelCalls <= 1
          /\ signals = 0 => (shutdownCalls = 0 /\ cancelCalls = 0)
          /\ cancelCalls = 1 => (shutdownCalls = 1 /\ (doneFired \/ signals >= 2)))
    /\ [][cancelCalls' # cancelCalls => (doneFired \/ signals >= 2)]_vars
    /\ (signals > 0) ~> (shutdownCalls = 1)
    /\ (shutdownCalls = 1 /\ (doneFired \/ signals >= 2)) ~> (cancelCalls = 1)

\* cancel called after a second signal, the shutdown not yet complete
C39_Witness ==
    /\ cancelCalls = 1
    /\ shutdownCalls = 1
    /\ ~doneFired
    /\ signals = 2
    /\ sigCh = <<>>

\* ---- the shared column schema storage ----

InitColumnSchema ==
    /\ InitEarly
    /\ newTxnCache({"waitAvailable"}, {1})
    /\ NewEventDispatcherManager({{}})
    /\ NewEventStore
    /\ spanCall = NoSpanCall
    /\ InitSignalHandling
    /\ NewSharedColumnSchemaStorage
    /\ NewShard

NextColumnSchema ==
    \/ \E content \in SchemaContents : GetOrSetColumnSchema(content)
    \/ \E content \in SchemaContents : unmarshalJsonToColumnSchema(content)
    \/ \E obj \in Objects : Clone(obj)
    \/ \E obj \in Objects : tryReleaseColumnSchema(obj)

SpecColumnSchema == InitColumnSchema /\ [][NextColumnSchema]_vars

\* C33: GetOrSetColumnSchema returns the stored object of the same columns
\* and indices when there is one; every stored schema's count is the number
\* of references handed out and not released and is at least 1; a schema
\* with references is stored, once; a digest key is in the map exactly when
\* its list is not empty
C33_CountIsReferencesHeld ==
    /\ [][(csOut'.op = "GetOrSetColumnSchema" /\ held' # held) =>
             /\ objContent'[csOut'.obj] = csOut'.content
             /\ \A o \in Objects :
                   (held[o] > 0 /\ objContent[o] = csOut'.content) => csOut'.obj = o]_vars
    /\ [](/\ csOut.op # "panic"
          /\ \A d \in Digests :
                /\ csm[d].present <=> csm[d].list # <<>>
                /\ \A i \in DOMAIN csm[d].list :
                      /\ csm[d].list[i].count = held[csm[d].list[i].obj]
                      /\ csm[d].list[i].count >= 1
                      /\ DigestOf(objContent[csm[d].list[i].obj]) = d
                      /\ \A j \in DOMAIN csm[d].list :
                            i # j => /\ csm[d].list[i].obj # csm[d].list[j].obj
                                     /\ objContent[csm[d].list[i].obj]
                                           # objContent[csm[d].list[j].obj]
          /\ \A o \in Objects :
                held[o] > 0 =>
                   \E i \in DOMAIN csm[DigestOf(objContent[o])].list :
                       csm[DigestOf(objContent[o])].list[i].obj = o)

\* the first of two colliding schemas has been released to its last
\* reference and removed, the second is still stored with two references
C33_Witness ==
    /\ csOut.op = "tryRelease"
    /\ held[csOut.obj] = 0
    /\ csm[DigestOf(csOut.content)].present
    /\ Len(csm[DigestOf(csOut.content)].list) = 1
    /\ csm[DigestOf(csOut.content)].list[1].count = 2
    /\ csm[DigestOf(csOut.content)].list[1].obj > csOut.obj

\* ---- one shard of the event store ----

\* two dispatchers have been registered, each on its span
InitShard ==
    /\ InitEarly
    /\ newTxnCache({"waitAvailable"}, {1})
    /\ NewEventDispatcherManager({{}})
    /\ esTables = [sp \in StoreSpans |-> sp]
    /\ spans = [d \in StoreDispatchers |-> [span |-> d, watermark |-> 1]]
    /\ gcItems = <<>>
    /\ regAt = [d \in StoreDispatchers |-> 0]
    /\ esCall = [op |-> "Register", d |-> NumStoreDispatchers, span |-> NumStoreSpans,
                 ts |-> 1, ret |-> "nil"]
    /\ registers = NumStoreDispatchers
    /\ spanCall = NoSpanCall
    /\ InitSignalHandling
    /\ NewSharedColumnSchemaStorage
    /\ NewShard

NextShard ==
    \/ \E sp \in StoreSpans, raw \in RawEntries : writeEventToShard(sp, raw)
    \/ BatchItem
    \/ TickerFires
    \/ SendBatch
    \/ CommitBatch
    \/ UpdateResolved
    \/ \E d \in StoreDispatchers : UnregisterDispatcher(d)

SpecShard == InitShard /\ [][NextShard]_vars

\* C31: when a notifier has been called with a resolved ts, every data event
\* sent to the shard before that resolved ts is in the DB; the committer
\* takes the batches in the order doBatching returned them
C31_NotifyAfterCommit ==
    /\ \A i \in DOMAIN notified :
          \A j \in 1..(notified[i].rid - 1) :
              ~enqLog[j].raw.resolved => EncodeKey(enqLog[j].span, enqLog[j].raw) \in db
    /\ \A i \in DOMAIN commitLog : commitLog[i] = i

\* a notifier was called for a resolved ts that came after a data event of
\* an earlier batch and one of its own batch
C31_Witness ==
    /\ Len(commitLog) >= 2
    /\ \E i \in DOMAIN notified :
          /\ notified[i].rid = MaxItems
          /\ ~enqLog[1].raw.resolved
          /\ ~enqLog[2].raw.resolved
          /\ enqLog[1] # enqLog[2]

\* the shard after three data events were written and committed, the first
\* two in a batch ended by its size, the third in a batch ended by a tick
InitIter ==
    /\ InitEarly
    /\ newTxnCache({"waitAvailable"}, {1})
    /\ NewEventDispatcherManager({{}})
    /\ esTables = [sp \in StoreSpans |-> sp]
    /\ spans = [d \in StoreDispatchers |-> [span |-> d, watermark |-> 1]]
    /\ gcItems = <<>>
    /\ regAt = [d \in StoreDispatchers |-> 0]
    /\ esCall = [op |-> "Register", d |-> NumStoreDispatchers, span |-> NumStoreSpans,
                 ts |-> 1, ret |-> "nil"]
    /\ registers = NumStoreDispatchers
    /\ spanCall = NoSpanCall
    /\ InitSignalHandling
    /\ NewSharedColumnSchemaStorage
    /\ inputCh = <<>>
    /\ curBatch = NewBatch
    /\ hePc = "batching"
    /\ batchCh = <<>>
    /\ cb = [pc |-> "recv", batch |-> NewBatch]
    /\ enqLog \in [1..3 -> [span : StoreSpans, raw : {r \in RawEntries : ~r.resolved}]]
    /\ db = {EncodeKey(enqLog[i].span, enqLog[i].raw) : i \in 1..3}
    /\ notified = <<>>
    /\ formed = 2
    /\ tickerFormed = 1
    /\ commitLog = <<1, 2>>
    /\ iter = NoIter
    /\ returned = <<>>

NextIter ==
    \/ \E sp \in StoreSpans, s \in 0..MaxSendTS, e \in 1..(MaxSendTS + 1) : GetIterator(sp, s, e)
    \/ IterNext
    \/ \E d \in StoreDispatchers : UnregisterDispatcher(d)

SpecIter == InitIter /\ [][NextIter]_vars

\* C32: the values returned by Next are the first ones of the iterator's
\* range, each once, in key order, and after a nil all of them
C32_EachEventOnceInOrder ==
    /\ Len(returned) <= Len(iter.keys)
    /\ \A i \in DOMAIN returned : returned[i] = iter.keys[i]
    /\ iter.state = "nil" => Len(returned) = Len(iter.keys)

\* Next has returned the one event of a range twice
C32_Witness ==
    /\ iter.state = "open"
    /\ Len(iter.keys) = 1
    /\ Len(returned) = 2
    /\ returned[1] = returned[2]

====
